---------------------------- MODULE Spec2Model ----------------------------
(***************************************************************************)
(* A model of the GQCP configuration-interaction core: the Fock-space      *)
(* addressing scheme (FockSpace), the DOCI Hamiltonian builder and the     *)
(* Davidson eigensolver.                                                   *)
(*                                                                         *)
(* Machine integers.  A size_t used as a number (a dimension, a vertex     *)
(* weight) is a sequence of 16-bit limbs, least significant first, with no *)
(* leading zero limb, so that 64-bit values and the exact binomial         *)
(* coefficients next to them can be written down.  A size_t used as a bit  *)
(* string (the representation of an ONV) is the set of its set bit         *)
(* positions, a subset of 0..63.                                           *)
(***************************************************************************)
EXTENDS Integers, Sequences, FiniteSets, TLC

\* ------------------------------------------------------------------ bounds

\* Fock spaces with K <= MaxK orbitals are explored exhaustively.
MaxK == 5

\* Operations of a Fock space are explored when its dimension is at most MaxDim.
MaxDim == 40

\* The DOCI builder is explored on the Fock spaces with K <= MaxOrbitals.
MaxOrbitals == 4

\* The arguments of the Davidson solver's constructor range over 0..MaxSubspace.
MaxSubspace == 4

\* The vectors the Davidson solver works on have MaxRows components.
MaxRows == 4

\* maximum_number_of_iterations ranges over 0..MaxIterations.
MaxIterations == 3

\* the FrozenCoreCI builders freeze at most this many orbitals
MaxFrozen == 2

\* an ONV object is followed through at most this many calls
MaxOperations == 4

\* the longest string representation passed to addConfiguration
MaxStringLength == 3

\* the largest dimension a SelectedFockSpace grows to
MaxConfigurations == 3

VARIABLES
    fock_space,       \* the FockSpace object: status, K, N, dim, vertex_weights
    call,             \* the last operation called on it
    word,             \* the bit string passed to getAddress / ulongNextPermutation
    addr,             \* the address getAddress returned
    rep,              \* the bit string returned by the last call
    binomial,         \* the binomial coefficient calculateDimension evaluates
    frame,            \* the loop variables of the call that is running
    steps,            \* ulongNextPermutation applications since calculateRepresentation(0)
    visited,          \* the representations an enumeration has visited
    ham_par,          \* the HamiltonianParameters passed to the DOCI builder
    doci,             \* the DOCI method that is running: its arguments and locals
    results,          \* what each DOCI method returned last
    called,           \* the DOCI methods that have been called
    davidson_solver,  \* the DavidsonSolver object
    subspace,         \* the locals of DavidsonSolver::solve: V, VA, S, ...
    optimizer,        \* the DOCINewtonOrbitalOptimizer object
    query,            \* the last getter called, and what it returned or threw
    frozen_core,      \* the FrozenCoreCI builder and what its methods returned
    onv1,             \* an ONV object: K, N, unsigned_representation, sign
    expectation,      \* the last calculateExpectationValue call and its outcome
    selected_fock_space, \* the SelectedFockSpace object
    shift             \* the last call of a shift primitive: arguments and cursor left

fockVars == << fock_space, binomial, frame, call, word, addr, rep, steps, visited >>

dociVars == << ham_par, doci, results, called >>

davidsonVars == << davidson_solver, subspace, optimizer, query >>

otherVars == << expectation, selected_fock_space, shift >>

objectVars == << frozen_core, onv1, otherVars >>

vars == << fockVars, dociVars, davidsonVars, objectVars >>

\* ------------------------------------------------------- machine constants

\* the width of size_t (unsigned long) on the x86-64 build
WordBits == 64

\* the width of int, the type of the literal (1)
IntBits == 32

\* the significand of a double
DoubleBits == 53

\* size_t numbers are kept as sequences of limbs below Base, lowest first
Base == 2^16

Min(a, b) == IF a < b THEN a ELSE b

\* ----------------------------------------------------------- limb numbers

Zero == << >>
One == << 1 >>

Limb(a, i) == IF i <= Len(a) THEN a[i] ELSE 0

RECURSIVE Strip(_)
Strip(a) ==
    IF a = << >> THEN a
    ELSE IF a[Len(a)] = 0 THEN Strip(SubSeq(a, 1, Len(a) - 1))
    ELSE a

RECURSIVE BigOf(_)
BigOf(n) == IF n = 0 THEN << >> ELSE << n % Base >> \o BigOf(n \div Base)

\* the value of a number below 2^31
ToNat(a) == Limb(a, 1) + Base * Limb(a, 2)

FitsNat(a) == Len(a) <= 1 \/ (Len(a) = 2 /\ a[2] < 2^15)

RECURSIVE AddLimbs(_, _, _, _)
AddLimbs(a, b, i, carry) ==
    IF i > Len(a) /\ i > Len(b)
    THEN IF carry = 0 THEN << >> ELSE << carry >>
    ELSE LET s == Limb(a, i) + Limb(b, i) + carry
         IN  << s % Base >> \o AddLimbs(a, b, i + 1, s \div Base)

BigAdd(a, b) == AddLimbs(a, b, 1, 0)

RECURSIVE MulLimbs(_, _, _, _)
MulLimbs(a, s, i, carry) ==
    IF i > Len(a)
    THEN BigOf(carry)
    ELSE LET t == a[i] * s + carry
         IN  << t % Base >> \o MulLimbs(a, s, i + 1, t \div Base)

\* a * s for a small factor s
BigMulSmall(a, s) == Strip(MulLimbs(a, s, 1, 0))

RECURSIVE DivLimbs(_, _, _, _)
DivLimbs(a, s, i, rem) ==
    IF i = 0
    THEN << >>
    ELSE LET t == rem * Base + a[i]
         IN  DivLimbs(a, s, i - 1, t % s) \o << t \div s >>

\* a \div s for a small divisor s
BigDivSmall(a, s) == Strip(DivLimbs(a, s, Len(a), 0))

RECURSIVE LessFrom(_, _, _)
LessFrom(a, b, i) ==
    IF i = 0 THEN FALSE
    ELSE IF a[i] # b[i] THEN a[i] < b[i]
    ELSE LessFrom(a, b, i - 1)

BigLess(a, b) ==
    IF Len(a) # Len(b) THEN Len(a) < Len(b) ELSE LessFrom(a, b, Len(a))

\* the number of bits of a limb
SmallBitLen(n) == CHOOSE e \in 0..16 : n < 2^e /\ (e = 0 \/ 2^(e - 1) <= n)

BitLen(a) == IF a = << >> THEN 0 ELSE 16 * (Len(a) - 1) + SmallBitLen(a[Len(a)])

\* 2^e as a number
BigPow2(e) == [i \in 1..(e \div 16) + 1 |-> IF i = (e \div 16) + 1 THEN 2^(e % 16) ELSE 0]

\* a with its `drop' lowest bits cleared
ClearLow(a, drop) ==
    Strip([i \in 1..Len(a) |->
             IF 16 * i <= drop THEN 0
             ELSE IF 16 * (i - 1) >= drop THEN a[i]
             ELSE a[i] - (a[i] % 2^(drop - 16 * (i - 1)))])

\* a reduced modulo 2^64: what unsigned 64-bit arithmetic keeps
WrapWord(a) == Strip(SubSeq(a, 1, Min(Len(a), WordBits \div 16)))

\* 2^64, one more than the largest size_t
WordLimit == BigPow2(WordBits)


\* ------------------------------------------------------------ bit strings

Bits == 0..(WordBits - 1)

\* __builtin_ctzl: the position of the lowest set bit of a non-zero word
Ctz(x) == CHOOSE b \in x : \A c \in x : b <= c

\* the position of the highest set bit of a non-zero word
Top(x) == CHOOSE b \in x : \A c \in x : c <= b

\* x - 1UL, wrapping at zero
Dec(x) == IF x = {} THEN Bits ELSE (x \ {Ctz(x)}) \cup {b \in Bits : b < Ctz(x)}

\* x + 1UL, wrapping at 2^64 - 1
Inc(x) ==
    IF x = Bits THEN {}
    ELSE LET z == Ctz(Bits \ x)
         IN  {b \in x : b > z} \cup {z}

\* x >> n for 0 <= n < 64
Shr(x, n) == {b - n : b \in {c \in x : c >= n}}

\* x < y as unsigned integers
WordLess(x, y) ==
    LET d == (x \ y) \cup (y \ x)
    IN  d # {} /\ Top(d) \in y

\* the bit strings with n bits set among the k lowest (built from the
\* strings with one bit less, or from their complements when n > k - n)
RECURSIVE Combinations(_, _)
Combinations(k, n) ==
    IF n > k THEN {}
    ELSE IF n = 0 THEN {{}}
    ELSE IF n > k - n THEN {(0..(k - 1)) \ c : c \in Combinations(k, k - n)}
    ELSE UNION {{c \cup {b} : b \in {d \in 0..(k - 1) : \A e \in c : e < d}}
                : c \in Combinations(k, n - 1)}

\* ------------------------------------------------------------- FockSpace

\* boost::math::binomial_coefficient, as a real number: C(n, i) from C(n, i - 1)
BinomialFactor(c, n, i) == BigDivSmall(BigMulSmall(c, n - i + 1), i)

\* The doubles the binomial coefficient can be returned as.  boost divides
\* n! by (n-k)! and by k! in doubles and rounds to an integer: the result is
\* C(n, k) while the factorials are exact (n <= 22).  A double holds
\* DoubleBits significant bits, so a longer integer is replaced by one of its
\* two neighbours with the low bits cleared; for the spaces constructed here
\* the value boost returns is one of these (C(57,25) - 1 for (57, 25)).  The
\* rounding errors boost makes on shorter integers (from (55, 26) on) are not
\* modelled.
AsDouble(c) ==
    LET drop == BitLen(c) - DoubleBits
        down == ClearLow(c, drop)
    IN  IF drop <= 0 \/ down = c THEN {c}
        ELSE {down, BigAdd(down, BigPow2(drop))}

\* a conversion that wraps at 2^64 instead of raising bad_numeric_cast
ConvertToSizeTWrapping(d) == [status |-> "ok", dim |-> WrapWord(d)]

\* boost::numeric::converter<size_t, double>::convert: the truncated value, or
\* bad_numeric_cast, rethrown as overflow_error, when it is 2^64 or more
ConvertToSizeT(d) ==
    IF BigLess(d, WordLimit)
    THEN [status |-> "ok", dim |-> d]
    ELSE [status |-> "overflow_error", dim |-> Zero]

\* the zero matrix with the first K-N+1 vertices of column 0 set to 1
FirstColumn(K, N) ==
    [p \in 0..K |-> [m \in 0..N |-> IF m = 0 /\ p < K - N + 1 THEN One ELSE Zero]]

\* the body of the recurrence loops, in size_t arithmetic:
\* vertex_weights[p][m] = vertex_weights[p - 1][m] + vertex_weights[p - 1][m - 1]
AssignWeight(w, p, m) ==
    [w EXCEPT ![p][m] = WrapWord(BigAdd(w[p - 1][m], w[p - 1][m - 1]))]

NoFockSpace == [status |-> "none", K |-> 0, N |-> 0, dim |-> Zero, vertex_weights |-> << >>]

\* a read of a vertex-weight table that has been cleared
get_vertex_weights_cleared(fs, p, m) == 0

\* get_vertex_weights(p, m), for weights below 2^31
get_vertex_weights(fs, p, m) == ToNat(fs.vertex_weights[p][m])

get_dimension(fs) == ToNat(fs.dim)

\* the loop of getAddress with electron_count incremented after the weight is read
RECURSIVE getAddressLoopLateCount(_, _, _, _)
getAddressLoopLateCount(fs, unsigned_onv, address, electron_count) ==
    IF unsigned_onv # {}
    THEN LET p == Ctz(unsigned_onv)
         IN  getAddressLoopLateCount(fs, unsigned_onv \ {p},
                                     address + get_vertex_weights(fs, p, electron_count),
                                     electron_count + 1)
    ELSE address

\* FockSpace::getAddress: the loop, from the lowest set bit up
RECURSIVE getAddressLoop(_, _, _, _)
getAddressLoop(fs, unsigned_onv, address, electron_count) ==
    IF unsigned_onv # {}
    THEN LET p == Ctz(unsigned_onv)
         IN  getAddressLoop(fs, unsigned_onv \ {p},
                            address + get_vertex_weights(fs, p, electron_count + 1),
                            electron_count + 1)
    ELSE address

getAddress(fs, unsigned_onv) == getAddressLoop(fs, unsigned_onv, 0, 0)

\* (1) << s as the size_t that is or-ed into the representation.  The literal
\* is an int: shifting into the sign bit gives INT_MIN, which converts to
\* 0xFFFFFFFF80000000; a shift by the width or more is undefined, and the
\* builds either mask the count (x86) or give 0.
IntOneShiftedLeft(s) ==
    IF s < IntBits - 1 THEN {{s}}
    ELSE IF s = IntBits - 1 THEN {{b \in Bits : b >= IntBits - 1}}
    ELSE {IF s % IntBits = IntBits - 1
          THEN {b \in Bits : b >= IntBits - 1}
          ELSE {s % IntBits},
          {}}

\* FockSpace::calculateRepresentation: one iteration of the loop over p, as
\* the loop variables it can leave behind; pc is "return" after the break and
\* after the last orbital
calculateRepresentationIteration(fs, address, representation, m, p) ==
    LET weight == get_vertex_weights(fs, p - 1, m)
        next(q) == IF q > 0 THEN "calculateRepresentation" ELSE "return"
    IN  IF weight <= address
        THEN {[pc |-> IF m - 1 = 0 THEN "return" ELSE next(p - 1),
               address |-> address - weight,
               representation |-> representation \cup bit,
               m |-> m - 1,
               p |-> p - 1] : bit \in IntOneShiftedLeft(p - 1)}
        ELSE {[pc |-> next(p - 1), address |-> address,
               representation |-> representation, m |-> m, p |-> p - 1]}

\* the loop variables calculateRepresentation(address) starts with
calculateRepresentationEntry(fs, address) ==
    [pc |-> IF fs.N # 0 /\ fs.K > 0 THEN "calculateRepresentation" ELSE "return",
     address |-> address, representation |-> {}, m |-> fs.N, p |-> fs.K]

\* ulongNextPermutation with the low bits shifted by ctz instead of ctz + 1
ulongNextPermutationShortShift(representation) ==
    LET t == representation \cup Dec(representation)
    IN  Inc(t) \cup Shr(Dec((Bits \ t) \cap Inc(t)), Ctz(representation))

\* FockSpace::ulongNextPermutation, for a non-zero word below 2^63
ulongNextPermutation(representation) ==
    LET t == representation \cup Dec(representation)
    IN  Inc(t) \cup Shr(Dec((Bits \ t) \cap Inc(t)), Ctz(representation) + 1)


\* the loop of calculateRepresentation, run from the loop variables f on: the
\* representations it can return
RECURSIVE calculateRepresentationLoop(_, _)
calculateRepresentationLoop(fs, f) ==
    IF f.pc = "return" THEN {f.representation}
    ELSE UNION {calculateRepresentationLoop(fs, after)
                : after \in calculateRepresentationIteration(fs, f.address,
                                f.representation, f.m, f.p)}

calculateRepresentation(fs, address) ==
    calculateRepresentationLoop(fs, calculateRepresentationEntry(fs, address))

\* -------------------------------------------------------------------- ONV

\* ONV::updateOccupationIndices: the positions of the set bits, ascending, as
\* occupation_indices(e) for the electrons e = 0..N-1
updateOccupationIndices(N, unsigned_representation) ==
    [e \in 0..(N - 1) |->
        CHOOSE b \in unsigned_representation :
            Cardinality({c \in unsigned_representation : c < b}) = e]

\* ONV::ONV(K, N, unsigned_representation)
ONV(K, N, unsigned_representation) ==
    [K |-> K, N |-> N, unsigned_representation |-> unsigned_representation,
     occupation_indices |-> updateOccupationIndices(N, unsigned_representation)]

get_occupation_index(onv, e) == onv.occupation_indices[e]

\* ONV::isOccupied(p)
isOccupied(onv, p) == p \in onv.unsigned_representation

\* ONV::operatorPhaseFactor(p): +1 for an even number of electrons in the
\* orbitals below p, -1 for an odd number
operatorPhaseFactor(onv, p) ==
    IF Cardinality({b \in onv.unsigned_representation : b < p}) % 2 = 0 THEN 1 ELSE -1

\* an annihilation that clears the lowest occupied orbital instead of p
annihilateLowest(onv, p) ==
    IF isOccupied(onv, p)
    THEN [onv |-> [onv EXCEPT !.unsigned_representation = @ \ {Ctz(@)}], returned |-> TRUE]
    ELSE [onv |-> onv, returned |-> FALSE]

\* ONV::annihilate(p): the ONV it leaves and the bool it returns; the
\* occupation indices are not updated
annihilate(onv, p) ==
    IF isOccupied(onv, p)
    THEN [onv |-> [onv EXCEPT !.unsigned_representation = @ \ {p}], returned |-> TRUE]
    ELSE [onv |-> onv, returned |-> FALSE]

\* ONV::annihilate(p, sign): as annihilate(p), and sign *= operatorPhaseFactor(p)
annihilateSign(onv, p, sign) ==
    IF isOccupied(onv, p)
    THEN [onv |-> [onv EXCEPT !.unsigned_representation = @ \ {p}], returned |-> TRUE,
          sign |-> sign * operatorPhaseFactor(onv, p)]
    ELSE [onv |-> onv, returned |-> FALSE, sign |-> sign]

\* a creation that reports success and sets no bit
createNothing(onv, p) ==
    [onv |-> onv, returned |-> ~isOccupied(onv, p)]

\* ONV::create(p): the ONV it leaves and the bool it returns
create(onv, p) ==
    IF ~isOccupied(onv, p)
    THEN [onv |-> [onv EXCEPT !.unsigned_representation = @ \cup {p}], returned |-> TRUE]
    ELSE [onv |-> onv, returned |-> FALSE]

\* ONV::create(p, sign): as create(p), and sign *= operatorPhaseFactor(p)
createSign(onv, p, sign) ==
    IF ~isOccupied(onv, p)
    THEN [onv |-> [onv EXCEPT !.unsigned_representation = @ \cup {p}], returned |-> TRUE,
          sign |-> sign * operatorPhaseFactor(onv, p)]
    ELSE [onv |-> onv, returned |-> FALSE, sign |-> sign]

\* ONV::updateOccupationIndices() on an ONV whose representation may hold
\* fewer or more than N electrons: the entries of the electrons that exist
\* are rewritten, the others are left as they were
updateOccupationIndicesInPlace(onv) ==
    [onv EXCEPT !.occupation_indices =
        [e \in 0..(onv.N - 1) |->
            IF e < Cardinality(onv.unsigned_representation)
            THEN updateOccupationIndices(e + 1, onv.unsigned_representation)[e]
            ELSE onv.occupation_indices[e]]]

\* ONV::set_representation(unsigned_representation): the new representation,
\* and updateOccupationIndices()
set_representation(onv, unsigned_representation) ==
    updateOccupationIndicesInPlace([onv EXCEPT !.unsigned_representation = unsigned_representation])

\* FockPermutator::makeONV(address): the ONVs it can return
makeONV(fs, address) ==
    {ONV(fs.K, fs.N, representation) : representation \in calculateRepresentation(fs, address)}

\* FockPermutator::setNextONV(onv)
setNextONV(fs, onv) ==
    ONV(onv.K, onv.N, ulongNextPermutation(onv.unsigned_representation))

\* FockSpace::shiftUntilNextUnoccupiedOrbital<T>(onv, address, q, e): the
\* cursor [address, q, e] it leaves behind (the address in Z: the unsigned
\* differences of the code cancel in every address that is used)
\* a shift that advances q and e and leaves the address as it was
shiftWithoutAddressCorrection(fs, onv, T, cursor) ==
    LET RECURSIVE crossed(_)
        crossed(c) == IF cursor.e + c < fs.N
                         /\ cursor.q + c = get_occupation_index(onv, cursor.e + c)
                      THEN crossed(c + 1) ELSE c
    IN  [cursor EXCEPT !.q = @ + crossed(0), !.e = @ + crossed(0)]

RECURSIVE shiftUntilNextUnoccupiedOrbital(_, _, _, _)
shiftUntilNextUnoccupiedOrbital(fs, onv, T, cursor) ==
    IF cursor.e < fs.N /\ cursor.q = get_occupation_index(onv, cursor.e)
    THEN shiftUntilNextUnoccupiedOrbital(fs, onv, T,
            [address |-> cursor.address
                            + get_vertex_weights(fs, cursor.q, cursor.e + 1 - T)
                            - get_vertex_weights(fs, cursor.q, cursor.e + 1),
             q |-> cursor.q + 1,
             e |-> cursor.e + 1])
    ELSE cursor

\* a shift with a sign argument that leaves the sign as it was
shiftWithoutSignFlip(fs, onv, T, cursor) ==
    [address |-> shiftUntilNextUnoccupiedOrbital(fs, onv, T, cursor).address,
     q |-> shiftUntilNextUnoccupiedOrbital(fs, onv, T, cursor).q,
     e |-> shiftUntilNextUnoccupiedOrbital(fs, onv, T, cursor).e,
     sign |-> cursor.sign]

\* FockSpace::shiftUntilNextUnoccupiedOrbital<T>(onv, address, q, e, sign):
\* the cursor [address, q, e, sign] it leaves behind
RECURSIVE shiftUntilNextUnoccupiedOrbitalSign(_, _, _, _)
shiftUntilNextUnoccupiedOrbitalSign(fs, onv, T, cursor) ==
    IF cursor.e < fs.N /\ cursor.q = get_occupation_index(onv, cursor.e)
    THEN shiftUntilNextUnoccupiedOrbitalSign(fs, onv, T,
            [address |-> cursor.address
                            + get_vertex_weights(fs, cursor.q, cursor.e + 1 - T)
                            - get_vertex_weights(fs, cursor.q, cursor.e + 1),
             q |-> cursor.q + 1,
             e |-> cursor.e + 1,
             sign |-> cursor.sign * (-1)])
    ELSE cursor

\* boost::math::binomial_coefficient(n, k), factor by factor up to the i-th
RECURSIVE binomialCoefficient(_, _, _)
binomialCoefficient(n, k, i) ==
    IF i = 0 THEN One ELSE BinomialFactor(binomialCoefficient(n, k, i - 1), n, i)

\* FockSpace::calculateDimension(K, N), for the values below 2^31 it can
\* return without an error
calculateDimension(K, N) ==
    {ToNat(d.dim) : d \in {c \in {ConvertToSizeT(dim_double) :
                                        dim_double \in AsDouble(binomialCoefficient(K, N, N))} :
                                c.status = "ok" /\ FitsNat(c.dim)}}

\* a count that takes the virtual orbitals below p instead of those above it
RECURSIVE countOneElectronCouplingsBelow(_, _, _)
countOneElectronCouplingsBelow(fs, onv, e1) ==
    IF e1 < fs.N
    THEN (get_occupation_index(onv, e1) - e1) + countOneElectronCouplingsBelow(fs, onv, e1 + 1)
    ELSE 0

\* FockSpace::countOneElectronCouplings(onv): the loop from electron e1 on.
\* V + e1 - p is the number of virtual orbitals above p and never wraps.
RECURSIVE countOneElectronCouplings(_, _, _)
countOneElectronCouplings(fs, onv, e1) ==
    IF e1 < fs.N
    THEN ((fs.K - fs.N) + e1 - get_occupation_index(onv, e1))
            + countOneElectronCouplings(fs, onv, e1 + 1)
    ELSE 0

\* countTwoElectronCouplings: the loop over e2, as the sums it can add
RECURSIVE countTwoElectronCouplingsE2(_, _, _)
countTwoElectronCouplingsE2(fs, onv, e2) ==
    IF e2 < fs.N
    THEN LET V == fs.K - fs.N
             coupling_count2 == V + e2 - get_occupation_index(onv, e2)
             pairs == IF coupling_count2 > 1
                      THEN calculateDimension(coupling_count2, 2)
                      ELSE {0}
         IN  {(V - coupling_count2) * coupling_count2 + c + rest :
                 c \in pairs, rest \in countTwoElectronCouplingsE2(fs, onv, e2 + 1)}
    ELSE {0}

\* a count without the two-electron part
RECURSIVE countTwoElectronCouplingsAbove(_, _, _)
countTwoElectronCouplingsAbove(fs, onv, e1) ==
    IF e1 < fs.N
    THEN {((fs.K - fs.N) + e1 - get_occupation_index(onv, e1)) + rest :
             rest \in countTwoElectronCouplingsAbove(fs, onv, e1 + 1)}
    ELSE {0}

\* FockSpace::countTwoElectronCouplings(onv): the loop from electron e1 on,
\* as the counts it can return
RECURSIVE countTwoElectronCouplings(_, _, _)
countTwoElectronCouplings(fs, onv, e1) ==
    IF e1 < fs.N
    THEN {((fs.K - fs.N) + e1 - get_occupation_index(onv, e1)) + pairs + rest :
             pairs \in countTwoElectronCouplingsE2(fs, onv, e1 + 1),
             rest \in countTwoElectronCouplings(fs, onv, e1 + 1)}
    ELSE {0}

\* ------------------------------------------------- HamiltonianParameters

\* The integrals are integer tables, one per family, so that the sums of the
\* builder are exact.  Families 0 and 1 have g(pq,rs) = g(rs,pq); family 2
\* does not.
PairCode(family, p, q) == 1 + family + p + 3 * q

\* family 3 is pair-symmetric with even values, so that the halves the
\* frozen-core formulas take are exact
OneElectronIntegral(family, p, q) == (1 + family) * (p + q) - 2

TwoElectronIntegral(family, p, q, r, s) ==
    IF family < 2
    THEN PairCode(family, p, q) * PairCode(family, r, s) - 7
    ELSE IF family = 2
         THEN PairCode(0, p, q) * (2 + r) - s
         ELSE 2 * PairCode(0, p, q) * PairCode(0, r, s)

\* the two-electron integrals of a parameter set: the table itself, or the
\* block of it that starts at orbital X when the set is a frozen one
get_g(hamiltonian_parameters, p, q, r, s) ==
    TwoElectronIntegral(hamiltonian_parameters.family,
                        p + hamiltonian_parameters.X, q + hamiltonian_parameters.X,
                        r + hamiltonian_parameters.X, s + hamiltonian_parameters.X)

\* g / 2 in double, on an even integral
Half(g) == g \div 2

\* FrozenCoreCI::freezeHamiltonianParameters, the sum over the frozen
\* orbitals l = from..X-1 that is added to h(q,p) of the unfrozen table
RECURSIVE frozenOneElectronShift(_, _, _, _, _)
frozenOneElectronShift(family, X, q, p, from) ==
    IF from >= X
    THEN 0
    ELSE TwoElectronIntegral(family, q, p, from, from)
            + TwoElectronIntegral(family, from, from, q, p)
            - Half(TwoElectronIntegral(family, q, from, from, p))
            - Half(TwoElectronIntegral(family, from, p, q, from))
            + frozenOneElectronShift(family, X, q, p, from + 1)

\* the one-electron integrals of a parameter set: the table itself, or for a
\* frozen set the block that starts at orbital X, with the frozen-core shift
get_h(hamiltonian_parameters, p, q) ==
    OneElectronIntegral(hamiltonian_parameters.family,
                        p + hamiltonian_parameters.X, q + hamiltonian_parameters.X)
        + frozenOneElectronShift(hamiltonian_parameters.family, hamiltonian_parameters.X,
                                 p + hamiltonian_parameters.X,
                                 q + hamiltonian_parameters.X, 0)

\* FrozenCoreCI::freezeHamiltonianParameters(ham_par, X): K_active = K - X
\* orbitals, h_new and g_new as get_h and get_g read them
freezeHamiltonianParameters(ham_par_total, X) ==
    [K |-> ham_par_total.K - X, family |-> ham_par_total.family, X |-> X]

Families == 0..2

\* the integral sets a builder over K orbitals is called with: every family
\* over K orbitals, and one set over fewer and one over more orbitals
HamiltonianParameters(K) ==
    {[K |-> K, family |-> family, X |-> 0] : family \in Families}
        \cup {[K |-> Kh, family |-> 0, X |-> 0] : Kh \in {K + 1} \cup ({K - 1} \ {-1})}

PairSymmetric(hamiltonian_parameters) ==
    \A p, q, r, s \in 0..(hamiltonian_parameters.K - 1) :
        get_g(hamiltonian_parameters, p, q, r, s) = get_g(hamiltonian_parameters, r, s, p, q)

\* ------------------------------------------------------------------ DOCI

ZeroVector(dim) == [I \in 0..(dim - 1) |-> 0]

ZeroMatrix(dim) == [I \in 0..(dim - 1) |-> ZeroVector(dim)]

\* the first statement of the three methods that accepts every integral set
CompatibleAlways(hamiltonian_parameters, fs) == FALSE

\* K != this->fock_space.get_K(), the first statement of the three methods
Incompatible(hamiltonian_parameters, fs) == hamiltonian_parameters.K # fs.K

\* calculateDiagonal: the loop over e2 < e1
RECURSIVE calculateDiagonalE2(_, _, _, _, _, _)
calculateDiagonalE2(hamiltonian_parameters, onv, p, e1, e2, double_I) ==
    IF e2 < e1
    THEN LET q == get_occupation_index(onv, e2)
         IN  calculateDiagonalE2(hamiltonian_parameters, onv, p, e1, e2 + 1,
                double_I + 2 * (2 * get_g(hamiltonian_parameters, p, p, q, q)
                                  - get_g(hamiltonian_parameters, p, q, q, p)))
    ELSE double_I

\* calculateDiagonal: the loop over e1
RECURSIVE calculateDiagonalE1(_, _, _, _)
calculateDiagonalE1(hamiltonian_parameters, onv, e1, double_I) ==
    IF e1 < onv.N
    THEN LET p == get_occupation_index(onv, e1)
         IN  calculateDiagonalE1(hamiltonian_parameters, onv, e1 + 1,
                calculateDiagonalE2(hamiltonian_parameters, onv, p, e1, 0,
                    double_I + 2 * get_h(hamiltonian_parameters, p, p)
                             + get_g(hamiltonian_parameters, p, p, p, p)))
    ELSE double_I

\* the ONV of the next iteration of an address loop: setNextONV is skipped at
\* the last address
NextONV(fs, onv, I) ==
    IF I < get_dimension(fs) - 1 THEN setNextONV(fs, onv) ELSE onv

\* calculateDiagonal: one iteration of the loop over the addresses I
calculateDiagonalIteration(fs, hamiltonian_parameters, c) ==
    [c EXCEPT !.diagonal[c.I] = @ + calculateDiagonalE1(hamiltonian_parameters, c.onv, 0, 0),
              !.onv = NextONV(fs, c.onv, c.I),
              !.I = @ + 1]

\* constructHamiltonian and matrixVectorProduct: the while (q < K) loop, as
\* the couplings [J, p, q] it meets
RECURSIVE creationLoop(_, _, _, _, _)
creationLoop(fs, K, onv, p, cursor) ==
    IF cursor.q < K
    THEN << [J |-> cursor.address + get_vertex_weights(fs, cursor.q, cursor.e),
             p |-> p, q |-> cursor.q] >>
         \o creationLoop(fs, K, onv, p,
                shiftUntilNextUnoccupiedOrbital(fs, onv, 1, [cursor EXCEPT !.q = @ + 1]))
    ELSE << >>

\* constructHamiltonian and matrixVectorProduct: the loop over e1
RECURSIVE annihilationLoop(_, _, _, _, _)
annihilationLoop(fs, K, onv, I, e1) ==
    IF e1 < fs.N
    THEN LET p == get_occupation_index(onv, e1)
             address == I - get_vertex_weights(fs, p, e1 + 1)
         IN  creationLoop(fs, K, onv, p,
                shiftUntilNextUnoccupiedOrbital(fs, onv, 1,
                    [address |-> address, q |-> p + 1, e |-> e1 + 1]))
             \o annihilationLoop(fs, K, onv, I, e1 + 1)
    ELSE << >>

\* an accumulation that adds to result_matrix(I, J) only
accumulateUpper(result_matrix, I, J, value) ==
    [result_matrix EXCEPT ![I][J] = @ + value]

\* result_matrix(I, J) += value; result_matrix(J, I) += value;
accumulate(result_matrix, I, J, value) ==
    [[result_matrix EXCEPT ![I][J] = @ + value] EXCEPT ![J][I] = @ + value]

\* constructHamiltonian: the accumulations of the couplings of address I
RECURSIVE constructHamiltonianCouplings(_, _, _, _)
constructHamiltonianCouplings(hamiltonian_parameters, result_matrix, I, couplings) ==
    IF couplings = << >> THEN result_matrix
    ELSE LET coupling == Head(couplings)
         IN  constructHamiltonianCouplings(hamiltonian_parameters,
                accumulate(result_matrix, I, coupling.J,
                    get_g(hamiltonian_parameters, coupling.p, coupling.q, coupling.p, coupling.q)),
                I, Tail(couplings))

\* constructHamiltonian: one iteration of the loop over the addresses I
constructHamiltonianIteration(fs, hamiltonian_parameters, c) ==
    [c EXCEPT !.result_matrix =
                  constructHamiltonianCouplings(hamiltonian_parameters,
                      [@ EXCEPT ![c.I][c.I] = @ + c.diagonal[c.I]], c.I,
                      annihilationLoop(fs, hamiltonian_parameters.K, c.onv, c.I, 0)),
              !.onv = NextONV(fs, c.onv, c.I),
              !.I = @ + 1]

\* an accumulation that multiplies with x(J) where double_J = x(I) is meant
matrixVectorProductStale(acc, x, J, value, double_J) ==
    [double_I |-> acc.double_I + value * x[J],
     matvec |-> [acc.matvec EXCEPT ![J] = @ + value * x[J]]]

\* double_I += value * x(J); matvec(J) += value * double_J;
matrixVectorProductAccumulate(acc, x, J, value, double_J) ==
    [double_I |-> acc.double_I + value * x[J],
     matvec |-> [acc.matvec EXCEPT ![J] = @ + value * double_J]]

\* matrixVectorProduct: the accumulations of the couplings of address I
RECURSIVE matrixVectorProductCouplings(_, _, _, _, _)
matrixVectorProductCouplings(hamiltonian_parameters, acc, x, double_J, couplings) ==
    IF couplings = << >> THEN acc
    ELSE LET coupling == Head(couplings)
         IN  matrixVectorProductCouplings(hamiltonian_parameters,
                matrixVectorProductAccumulate(acc, x, coupling.J,
                    get_g(hamiltonian_parameters, coupling.p, coupling.q, coupling.p, coupling.q),
                    double_J),
                x, double_J, Tail(couplings))

\* matrixVectorProduct: one iteration of the loop over the addresses I
matrixVectorProductIteration(fs, hamiltonian_parameters, c) ==
    LET acc == matrixVectorProductCouplings(hamiltonian_parameters,
                   [double_I |-> 0, matvec |-> c.matvec], c.x, c.x[c.I],
                   annihilationLoop(fs, hamiltonian_parameters.K, c.onv, c.I, 0))
    IN  [c EXCEPT !.matvec = [acc.matvec EXCEPT ![c.I] = @ + acc.double_I],
                  !.onv = NextONV(fs, c.onv, c.I),
                  !.I = @ + 1]

\* the row I of A * x
RECURSIVE RowTimes(_, _, _)
RowTimes(row, x, J) ==
    IF J \in DOMAIN row THEN row[J] * x[J] + RowTimes(row, x, J + 1) ELSE 0

\* Eigen's matrix-vector product A * x
MatrixTimes(A, x) == [I \in DOMAIN A |-> RowTimes(A[I], x, 0)]

\* ---------------------------------------------------------- FrozenCoreCI

\* calculateFrozenCoreDiagonal: the loop over j = from..X-1
RECURSIVE frozenCorePairs(_, _, _, _)
frozenCorePairs(ham_par_total, X, i, from) ==
    IF from >= X
    THEN 0
    ELSE 2 * get_g(ham_par_total, i, i, from, from)
            + 2 * get_g(ham_par_total, from, from, i, i)
            - get_g(ham_par_total, from, i, i, from)
            - get_g(ham_par_total, i, from, from, i)
            + frozenCorePairs(ham_par_total, X, i, from + 1)

\* calculateFrozenCoreDiagonal: the loop over i = from..X-1
RECURSIVE frozenCoreValue(_, _, _)
frozenCoreValue(ham_par_total, X, from) ==
    IF from >= X
    THEN 0
    ELSE 2 * get_h(ham_par_total, from, from)
            + get_g(ham_par_total, from, from, from, from)
            + frozenCorePairs(ham_par_total, X, from, from + 1)
            + frozenCoreValue(ham_par_total, X, from + 1)

\* a frozen-core diagonal without the two-electron terms
calculateFrozenCoreDiagonalOneElectron(ham_par_total, X, dim) ==
    [I \in 0..(dim - 1) |-> 2 * X * get_h(ham_par_total, 0, 0)]

\* FrozenCoreCI::calculateFrozenCoreDiagonal(ham_par, X): value * Ones(dim)
calculateFrozenCoreDiagonal(ham_par_total, X, dim) ==
    [I \in 0..(dim - 1) |-> frozenCoreValue(ham_par_total, X, 0)]

\* total += frozen_core_diagonal.asDiagonal()
asDiagonal(total, frozen_core_diagonal) ==
    [I \in DOMAIN total |->
        [J \in DOMAIN total[I] |->
            total[I][J] + IF I = J THEN frozen_core_diagonal[I] ELSE 0]]

\* diagonal + frozen_core_diagonal
VectorSum(diagonal, frozen_core_diagonal) ==
    [I \in DOMAIN diagonal |-> diagonal[I] + frozen_core_diagonal[I]]

\* ---------------------------------------------------------- SelectedFockSpace

\* boost::dynamic_bitset<> transfer (onv): the bits of a string of '0' and
\* '1' read from right to left; size() is the length of the string and
\* count() the number of bits set
Transfer(string) == {Len(string) - i : i \in {j \in 1..Len(string) : string[j] = 1}}

\* SelectedFockSpace::makeConfiguration(onv1, onv2): the configuration, or
\* std::invalid_argument
makeConfiguration(sfs, string1, string2) ==
    IF Len(string1) # sfs.K \/ Len(string2) # sfs.K
    THEN [status |-> "invalid_argument"]
    ELSE IF Cardinality(Transfer(string1)) # sfs.N_alpha
            \/ Cardinality(Transfer(string2)) # sfs.N_beta
    THEN [status |-> "invalid_argument"]
    ELSE [status |-> "ok",
          onv_alpha |-> ONV(sfs.K, sfs.N_alpha, Transfer(string1)),
          onv_beta |-> ONV(sfs.K, sfs.N_beta, Transfer(string2))]

\* SelectedFockSpace::SelectedFockSpace(K, N_alpha, N_beta): dimension 0
SelectedFockSpace(K, N_alpha, N_beta) ==
    [status |-> "ok", K |-> K, N_alpha |-> N_alpha, N_beta |-> N_beta, dim |-> 0,
     configurations |-> << >>]

\* SelectedFockSpace::addConfiguration(onv1, onv2): the object it leaves
\* behind, with the status of the call
addConfiguration(sfs, string1, string2) ==
    LET counted == [sfs EXCEPT !.dim = @ + 1]
        configuration == makeConfiguration(counted, string1, string2)
    IN  IF configuration.status # "ok"
        THEN [counted EXCEPT !.status = configuration.status]
        ELSE [counted EXCEPT !.status = "ok",
                             !.configurations =
                                 Append(@, << configuration.onv_alpha, configuration.onv_beta >>)]

\* SelectedFockSpace::addConfiguration(onv1s, onv2s), the loop from entry i
RECURSIVE addConfigurationsFrom(_, _, _, _)
addConfigurationsFrom(sfs, strings1, strings2, i) ==
    IF i > Len(strings1) THEN sfs
    ELSE LET added == addConfiguration(sfs, strings1[i], strings2[i])
         IN  IF added.status # "ok" THEN added
             ELSE addConfigurationsFrom(added, strings1, strings2, i + 1)

\* SelectedFockSpace::addConfiguration(onv1s, onv2s)
addConfigurations(sfs, strings1, strings2) ==
    IF Len(strings1) # Len(strings2)
    THEN [sfs EXCEPT !.status = "invalid_argument"]
    ELSE addConfigurationsFrom([sfs EXCEPT !.status = "ok"], strings1, strings2, 1)

\* ------------------------------------------------------ expectation values

\* f(0) + ... + f(n - 1)
RECURSIVE SumOver(_, _)
SumOver(f(_), n) == IF n = 0 THEN 0 ELSE f(n - 1) + SumOver(f, n - 1)

\* the density matrices an expectation value is taken with, as integer
\* tables: zero, a diagonal of occupations, and a full table
OneRDM(K, kind) ==
    [p \in 0..(K - 1) |-> [q \in 0..(K - 1) |->
        IF kind = 0 THEN 0 ELSE IF p = q THEN 2 ELSE (kind - 1) * (p + 2 * q)]]

\* the one-electron operators: the integral tables as matrices
OneElectronOperator(K, family) ==
    [p \in 0..(K - 1) |-> [q \in 0..(K - 1) |-> OneElectronIntegral(family, p, q)]]

\* d(p,q,r,s) of the 2-RDMs, with even entries so that the prefactor 0.5 is exact
TwoRDM(kind, p, q, r, s) ==
    IF kind = 0 THEN 0 ELSE IF p = q /\ r = s THEN 4 ELSE 2 * (kind - 1) * (p + r)

RDMKinds == 0..2

\* the number of rows and columns of a square matrix
dimension(matrix) == Cardinality(DOMAIN matrix)

\* an expectation value that contracts over the smaller of the two dimensions
calculateExpectationValueOneUnchecked(one_op, one_rdm) ==
    LET K == Min(dimension(one_op), dimension(one_rdm))
    IN  [status |-> "ok",
         value |-> SumOver(LAMBDA p : SumOver(LAMBDA q : one_op[p][q] * one_rdm[q][p], K), K)]

\* calculateExpectationValue(one_op, one_rdm): (one_op * one_rdm).trace(), or
\* std::invalid_argument
calculateExpectationValueOne(one_op, one_rdm) ==
    IF dimension(one_op) # dimension(one_rdm)
    THEN [status |-> "invalid_argument", value |-> 0]
    ELSE LET K == dimension(one_op)
         IN  [status |-> "ok",
              value |-> SumOver(LAMBDA p :
                            SumOver(LAMBDA q : one_op[p][q] * one_rdm[q][p], K), K)]

\* calculateExpectationValue(two_op, two_rdm): 0.5 g(p q r s) d(p q r s), or
\* std::invalid_argument; the tensors are given by their dimension and table
calculateExpectationValueTwo(two_op, two_rdm) ==
    IF two_op.K # two_rdm.K
    THEN [status |-> "invalid_argument", value |-> 0]
    ELSE LET K == two_op.K
         IN  [status |-> "ok",
              value |-> Half(
                  SumOver(LAMBDA p : SumOver(LAMBDA q : SumOver(LAMBDA r : SumOver(LAMBDA s :
                      TwoElectronIntegral(two_op.family, p, q, r, s)
                          * TwoRDM(two_rdm.kind, p, q, r, s), K), K), K), K))]

\* ------------------------------------------ dense vectors and matrices (Eigen)

\* Vectors are tuples of integers; a matrix is the tuple of its columns, and
\* the subspace matrix S the tuple of its rows.

RECURSIVE DotFrom(_, _, _)
DotFrom(x, y, i) ==
    IF i > Len(x) THEN 0 ELSE x[i] * y[i] + DotFrom(x, y, i + 1)

\* x.dot(y)
Dot(x, y) == DotFrom(x, y, 1)

\* x - y
Minus(x, y) == [i \in 1..Len(x) |-> x[i] - y[i]]

ZeroColumn(dim) == [i \in 1..dim |-> 0]

UnitVector(dim, k) == [i \in 1..dim |-> IF i = k THEN 1 ELSE 0]

\* the linear combination of the first `depth' columns of M with the
\* coefficients c
RECURSIVE CombineFrom(_, _, _, _, _)
CombineFrom(M, c, k, depth, dim) ==
    IF k > depth THEN ZeroColumn(dim)
    ELSE LET rest == CombineFrom(M, c, k + 1, depth, dim)
         IN  [i \in 1..dim |-> c[k] * M[k][i] + rest[i]]

\* M * c for a vector c with as many components as M has columns
Combine(M, c, dim) == CombineFrom(M, c, 1, Len(M), dim)

\* V.transpose() * x
TransposeTimes(V, x) == [i \in 1..Len(V) |-> Dot(V[i], x)]

\* V.transpose() * VA, as rows
ProjectedMatrix(V, VA) == [i \in 1..Len(V) |-> [j \in 1..Len(VA) |-> Dot(V[i], VA[j])]]

\* The matrix behind matrixVectorProduct: a symmetric integer matrix with
\* non-zero off-diagonal entries.
DenseOperator(dim) ==
    [i \in 1..dim |-> [j \in 1..dim |-> IF i = j THEN 3 * i ELSE i + j]]

\* this->matrixVectorProduct(x)
VectorFunction(dim, x) == [i \in 1..dim |-> Dot(DenseOperator(dim)[i], x)]

\* eigensolver.eigenvectors() of an n x n subspace matrix, as columns.  The
\* eigenvectors are not computed: they are any of these orthogonal matrices.
Eigenvectors(n) ==
    {[c \in 1..n |-> UnitVector(n, c)], [c \in 1..n |-> UnitVector(n, n + 1 - c)]}

\* eigenvectors.topLeftCorner(rows, cols); an entry outside the matrix
\* reads as 0
topLeftCorner(eigenvectors, rows, cols) ==
    [c \in 1..cols |-> [r \in 1..rows |->
        IF c <= Len(eigenvectors) /\ r <= Len(eigenvectors) THEN eigenvectors[c][r] ELSE 0]]

\* M * block, over the depth the two have in common
Product(M, block, dim) ==
    [c \in 1..Len(block) |->
        CombineFrom(M, block[c], 1,
                    Min(Len(M), IF Len(block) = 0 THEN 0 ELSE Len(block[1])), dim)]

\* --------------------------------------------------------- DavidsonSolver

\* a validation whose last test lets collapsed = maximum pass
DavidsonSolverThrowsAbove(V_0_cols, number_of_requested_eigenpairs, maximum_subspace_dimension, collapsed_subspace_dimension) ==
    \/ V_0_cols < number_of_requested_eigenpairs
    \/ collapsed_subspace_dimension < number_of_requested_eigenpairs
    \/ collapsed_subspace_dimension > maximum_subspace_dimension

\* DavidsonSolver::DavidsonSolver: whether the body throws std::invalid_argument
DavidsonSolverThrows(V_0_cols, number_of_requested_eigenpairs, maximum_subspace_dimension, collapsed_subspace_dimension) ==
    \/ V_0_cols < number_of_requested_eigenpairs
    \/ collapsed_subspace_dimension < number_of_requested_eigenpairs
    \/ collapsed_subspace_dimension >= maximum_subspace_dimension

\* DavidsonSolver::solve: number_of_iterations >= maximum_number_of_iterations,
\* tested after the increment
IterationLimitReached(number_of_iterations, maximum_number_of_iterations) ==
    number_of_iterations >= maximum_number_of_iterations

\* a getter that returns the count whether or not the solver has converged
get_number_of_iterations_unguarded(solver) == "number_of_iterations"

\* DavidsonSolver::get_number_of_iterations: what it returns or throws
get_number_of_iterations(solver) ==
    IF solver.is_solved THEN "number_of_iterations" ELSE "invalid_argument"

\* DOCINewtonOrbitalOptimizer::get_eigenpairs and get_eigenpair(index): what
\* they return or throw
get_eigenpairs(orbital_optimizer) ==
    IF orbital_optimizer.is_converged THEN "eigenpairs" ELSE "logic_error"

\* DOCINewtonOrbitalOptimizer::makeWavefunction(index): the outcomes.
\* this->eigenpairs[index] with index = eigenpairs.size() reads past the end
\* of the vector, which is undefined: the wave function is built from
\* whatever is found there, or the read faults.
makeWavefunction(orbital_optimizer, index) ==
    IF index > orbital_optimizer.eigenpairs THEN {"logic_error"}
    ELSE IF index < orbital_optimizer.eigenpairs THEN {"wavefunction"}
    ELSE {"wavefunction_of_garbage", "fault"}

\* v = Delta.col(column_index) - V * (V.transpose() * Delta.col(column_index))
Orthogonalise(V, delta, dim) ==
    Minus(delta, Combine(V, TransposeTimes(V, delta), dim))

\* norm > 1.0e-03, for a vector of integers
Included(v) == Dot(v, v) > 0

\* the subspace collapse.  lowest_eigenvectors has S.cols() rows; when V has
\* another number of columns, or the corner does not lie inside the
\* eigenvector matrix, the products are not defined: Eigen's assertion aborts
\* the run, and without assertions the run goes on with a product over the
\* common depth or ends in some other way.
Collapse(l, eigenvectors, collapsed_subspace_dimension, dim) ==
    LET lowest_eigenvectors ==
            topLeftCorner(eigenvectors, Len(l.S), collapsed_subspace_dimension)
        V == Product(l.V, lowest_eigenvectors, dim)
        VA == Product(l.VA, lowest_eigenvectors, dim)
        collapsed == [l EXCEPT !.V = V, !.VA = VA, !.S = ProjectedMatrix(V, VA)]
    IN  IF /\ Len(l.V) = Len(l.S)
           /\ Len(l.S) <= Len(eigenvectors)
           /\ collapsed_subspace_dimension <= Len(eigenvectors)
        THEN {collapsed}
        ELSE {collapsed, [l EXCEPT !.pc = "aborted"], [l EXCEPT !.pc = "undefined"]}

\* V and VA get the column v and its image
AppendColumn(l, v, dim) ==
    [l EXCEPT !.V = Append(@, v), !.VA = Append(@, VectorFunction(dim, v))]

\* the body of the loop over the correction vectors, for the correction delta
ExpandSubspace(l, delta, dim, maximum_subspace_dimension, collapsed_subspace_dimension) ==
    LET v == Orthogonalise(l.V, delta, dim)
        next(after) == IF after.pc = "expand"
                       THEN [AppendColumn(after, v, dim) EXCEPT !.column_index = @ + 1]
                       ELSE after
    IN  IF Included(v)
        THEN IF Len(l.V) = maximum_subspace_dimension
             THEN {next(after) : after \in Collapse(l, l.eigenvectors,
                                                    collapsed_subspace_dimension, dim)}
             ELSE {next(l)}
        ELSE {[l EXCEPT !.column_index = @ + 1]}

\* S.conservativeResize(S.rows() + difference, S.cols() + difference): the
\* entries are kept and the new ones, all of which the loop assigns, read 0
conservativeResize(S, size) ==
    [i \in 1..size |-> [j \in 1..size |->
        IF i <= Len(S) /\ j <= Len(S[i]) THEN S[i][j] ELSE 0]]

\* an assignment of the column only
AssignColumnOnly(S, j, s_j) ==
    [i \in 1..Len(S) |-> [S[i] EXCEPT ![j] = s_j[i]]]

\* S.col(j) = s_j; S.row(j) = s_j;
AssignColumnAndRow(S, j, s_j) ==
    [[i \in 1..Len(S) |-> [S[i] EXCEPT ![j] = s_j[i]]] EXCEPT ![j] = s_j]

\* the loop over the columns j of S, previous_subspace_dimension - 1 first;
\* the columns are counted from 1 here
RECURSIVE ExtendColumns(_, _, _, _)
ExtendColumns(S, V, VA, j) ==
    IF j > Len(V) THEN S
    ELSE ExtendColumns(AssignColumnAndRow(S, j, TransposeTimes(V, VA[j])), V, VA, j + 1)

\* the new subspace matrix; previous_subspace_dimension - 1 wraps for an
\* empty S and the loop is not entered then
ExtendSubspaceMatrix(S, V, VA) ==
    LET previous_subspace_dimension == Len(S)
        resized == conservativeResize(S, Len(S) + (Len(V) - Len(S)))
    IN  IF previous_subspace_dimension = 0 THEN resized
        ELSE ExtendColumns(resized, V, VA, previous_subspace_dimension)

\* ------------------------------------------- the Fock space as a state machine

\* the (K, N) a Fock space is constructed with: every pair up to MaxK, N > K
\* included, and some spaces that need more than 31 bits
SmallSpaces == {<< K, N >> : K \in 0..MaxK, N \in 0..(MaxK + 1)}

WideSpaces == {<< 32, 1 >>, << 33, 1 >>, << 33, 32 >>,
               << 57, 25 >>, << 67, 33 >>, << 68, 34 >>}

\* a constructed space small enough for its ONVs to be enumerated
Explorable(fs) == fs.status = "ok" /\ FitsNat(fs.dim) /\ ToNat(fs.dim) <= MaxDim

\* getAddress is explored on the spaces of at most MaxK + 1 electrons
Addressable(fs) == Explorable(fs) /\ fs.N <= MaxK + 1

\* the ONVs of the space: K-bit strings with N bits set
ONVs(fs) == Combinations(fs.K, fs.N)

\* the non-zero K-bit strings ulongNextPermutation is applied to
Words(fs) ==
    IF fs.K <= MaxK + 1
    THEN (SUBSET (0..(fs.K - 1))) \ {{}}
    ELSE ONVs(fs) \ {{}}

Idle == [pc |-> "idle"]

\* no integrals, no DOCI call
NoCall ==
    [method |-> "none", pc |-> "none", I |-> 0, onv |-> << >>, x |-> << >>,
     diagonal |-> << >>, result_matrix |-> << >>, matvec |-> << >>]

NoResults ==
    [calculateDiagonal |-> << >>, constructHamiltonian |-> << >>,
     matrixVectorProduct |-> << >>]

\* no FrozenCoreCI builder
NoFrozenCore ==
    [status |-> "none", pc |-> "idle", X |-> 0, ham_par |-> [K |-> 0, family |-> 0, X |-> 0],
     calculateDiagonal |-> << >>, constructHamiltonian |-> << >>]

\* calculateExpectationValue has not been called
NoExpectation ==
    [call |-> "none", op_K |-> 0, rdm_K |-> 0, family |-> 0, kind |-> 0,
     status |-> "none", value |-> 0]

\* no shift primitive has been called
NoShift ==
    [call |-> "none", onv |-> ONV(0, 0, {}), T |-> 0,
     before |-> [address |-> 0, q |-> 0, e |-> 0, sign |-> 1],
     after |-> [address |-> 0, q |-> 0, e |-> 0, sign |-> 1]]

\* no SelectedFockSpace object
NoSelectedFockSpace ==
    [status |-> "none", K |-> 0, N_alpha |-> 0, N_beta |-> 0, dim |-> 0,
     configurations |-> << >>]

\* no ONV object
NoONV ==
    [status |-> "none", onv |-> ONV(0, 0, {}), sign |-> 1, call |-> "none", p |-> 0,
     returned |-> FALSE, before |-> ONV(0, 0, {}), before_sign |-> 1,
     annihilated |-> 0, created |-> 0, operations |-> 0]

DOCIIdle ==
    /\ ham_par = [K |-> 0, family |-> 0, X |-> 0]
    /\ doci = NoCall
    /\ results = NoResults
    /\ called = {}

NoSolver ==
    [status |-> "none", V_0_cols |-> 0, number_of_requested_eigenpairs |-> 0,
     maximum_subspace_dimension |-> 0, collapsed_subspace_dimension |-> 0,
     dim |-> 0, maximum_number_of_iterations |-> 0,
     number_of_iterations |-> 0, is_solved |-> FALSE, eigenpairs |-> 0]

\* solve has not been called
NoSubspace ==
    [pc |-> "none", V |-> << >>, VA |-> << >>, S |-> << >>,
     eigenvectors |-> << >>, column_index |-> 0, iterations |-> 0]

\* no orbital optimizer; is_converged is false in an optimizer that has
\* not solved
NoOptimizer ==
    [status |-> "none", is_converged |-> FALSE, oo_iterations |-> 0,
     maximum_number_of_iterations |-> 0, eigenpairs |-> 0, basis |-> 0]

NoQuery == [call |-> "none", result |-> "none", converged |-> FALSE, index |-> 0]

DavidsonIdle ==
    /\ davidson_solver = NoSolver
    /\ subspace = NoSubspace
    /\ optimizer = NoOptimizer
    /\ query = NoQuery

\* no Fock space, no DOCI builder, no Davidson solver
Init ==
    /\ fock_space = NoFockSpace
    /\ binomial = Zero
    /\ frame = Idle
    /\ call = "none"
    /\ word = {}
    /\ addr = 0
    /\ rep = {}
    /\ steps = 0
    /\ visited = {}
    /\ DOCIIdle
    /\ DavidsonIdle
    /\ frozen_core = NoFrozenCore
    /\ onv1 = NoONV
    /\ expectation = NoExpectation
    /\ selected_fock_space = NoSelectedFockSpace
    /\ shift = NoShift

\* FockSpace fock_space (K, N): calculateDimension(K, N) is entered; the
\* binomial coefficient of N > K is a domain error
Construct ==
    /\ fock_space.status = "none"
    /\ \E kn \in SmallSpaces \cup WideSpaces :
          IF kn[2] > kn[1]
          THEN /\ fock_space' = [NoFockSpace EXCEPT !.status = "domain_error",
                                                    !.K = kn[1], !.N = kn[2]]
               /\ frame' = Idle
          ELSE /\ fock_space' = [NoFockSpace EXCEPT !.status = "constructing",
                                                    !.K = kn[1], !.N = kn[2]]
               /\ frame' = [pc |-> "binomial_coefficient", i |-> 0]
    /\ binomial' = One
    /\ call' = "FockSpace"
    /\ UNCHANGED << word, addr, rep, steps, visited, dociVars, davidsonVars, objectVars >>

\* the evaluation of the binomial coefficient, one factor per step
BinomialCoefficient ==
    /\ frame.pc = "binomial_coefficient"
    /\ frame.i < fock_space.N
    /\ binomial' = BinomialFactor(binomial, fock_space.K, frame.i + 1)
    /\ frame' = [frame EXCEPT !.i = @ + 1]
    /\ UNCHANGED << fock_space, call, word, addr, rep, steps, visited, dociVars, davidsonVars, objectVars >>

\* calculateDimension returns the converted double or throws; the
\* constructor's body then allocates the matrix and runs its first loop
CalculateDimension ==
    /\ frame.pc = "binomial_coefficient"
    /\ ~(frame.i < fock_space.N)
    /\ \E dim_double \in AsDouble(binomial) :
          LET d == ConvertToSizeT(dim_double)
          IN  IF d.status = "ok"
              THEN /\ fock_space' = [fock_space EXCEPT
                                        !.dim = d.dim,
                                        !.vertex_weights = FirstColumn(fock_space.K, fock_space.N)]
                   /\ frame' = [pc |-> "vertex_weights", m |-> 1, p |-> 1]
              ELSE /\ fock_space' = [fock_space EXCEPT !.status = d.status]
                   /\ frame' = Idle
    /\ UNCHANGED << binomial, call, word, addr, rep, steps, visited, dociVars, davidsonVars, objectVars >>

\* one iteration of the recurrence loops: the assignment of vertex_weights[p][m]
ConstructWeight ==
    /\ frame.pc = "vertex_weights"
    /\ frame.m < fock_space.N + 1
    /\ fock_space' = [fock_space EXCEPT !.vertex_weights = AssignWeight(@, frame.p, frame.m)]
    /\ frame' = IF frame.p + 1 < (fock_space.K - fock_space.N + frame.m) + 1
                THEN [frame EXCEPT !.p = @ + 1]
                ELSE [frame EXCEPT !.m = @ + 1, !.p = frame.m + 1]
    /\ UNCHANGED << binomial, call, word, addr, rep, steps, visited, dociVars, davidsonVars, objectVars >>

\* the constructor returns
Constructed ==
    /\ frame.pc = "vertex_weights"
    /\ ~(frame.m < fock_space.N + 1)
    /\ fock_space' = [fock_space EXCEPT !.status = "ok"]
    /\ frame' = Idle
    /\ UNCHANGED << binomial, call, word, addr, rep, steps, visited, dociVars, davidsonVars, objectVars >>

\* addr = fock_space.getAddress(y);
GetAddress ==
    /\ Addressable(fock_space)
    /\ call = "FockSpace"
    /\ \E y \in ONVs(fock_space) :
          /\ word' = y
          /\ addr' = getAddress(fock_space, y)
    /\ call' = "getAddress"
    /\ UNCHANGED << fock_space, binomial, frame, rep, steps, visited, dociVars, davidsonVars, objectVars >>

\* fock_space.calculateRepresentation(addr) is entered, the address being
\* the one getAddress returned
CalculateRepresentation ==
    /\ call = "getAddress"
    /\ frame' = calculateRepresentationEntry(fock_space, addr)
    /\ rep' = frame'.representation
    /\ call' = "calculateRepresentation"
    /\ UNCHANGED << fock_space, binomial, word, addr, steps, visited, dociVars, davidsonVars, objectVars >>

\* one iteration of the loop of calculateRepresentation
CalculateRepresentationIteration ==
    /\ frame.pc = "calculateRepresentation"
    /\ frame' \in calculateRepresentationIteration(fock_space, frame.address,
                      frame.representation, frame.m, frame.p)
    /\ rep' = frame'.representation
    /\ visited' = IF call = "enumerate" THEN {rep'} ELSE visited
    /\ UNCHANGED << fock_space, binomial, call, word, addr, steps, dociVars, davidsonVars, objectVars >>

\* rep = fock_space.ulongNextPermutation(y);
UlongNextPermutation ==
    /\ Explorable(fock_space)
    /\ call = "FockSpace"
    /\ \E y \in Words(fock_space) :
          /\ word' = y
          /\ rep' = ulongNextPermutation(y)
    /\ call' = "ulongNextPermutation"
    /\ UNCHANGED << fock_space, binomial, frame, addr, steps, visited, dociVars, davidsonVars, objectVars >>

\* the start of an enumeration: fock_space.calculateRepresentation(0) is entered
StartEnumeration ==
    /\ Explorable(fock_space)
    /\ call = "FockSpace"
    /\ frame' = calculateRepresentationEntry(fock_space, 0)
    /\ rep' = frame'.representation
    /\ visited' = {rep'}
    /\ steps' = 0
    /\ call' = "enumerate"
    /\ UNCHANGED << fock_space, binomial, word, addr, dociVars, davidsonVars, objectVars >>

\* one more of the dim - 1 steps of an enumeration
NextRepresentation ==
    /\ call = "enumerate"
    /\ frame.pc = "return"
    /\ steps < get_dimension(fock_space) - 1
    /\ rep' = ulongNextPermutation(rep)
    /\ visited' = visited \cup {rep'}
    /\ steps' = steps + 1
    /\ UNCHANGED << fock_space, binomial, frame, call, word, addr, dociVars, davidsonVars, objectVars >>

\* addr = fock_space.countOneElectronCouplings(onv), for an ONV of the space
CountOneElectronCouplings ==
    /\ Addressable(fock_space)
    /\ call = "FockSpace"
    /\ \E y \in ONVs(fock_space) :
          /\ word' = y
          /\ addr' = countOneElectronCouplings(fock_space, ONV(fock_space.K, fock_space.N, y), 0)
    /\ call' = "countOneElectronCouplings"
    /\ UNCHANGED << fock_space, binomial, frame, rep, steps, visited, dociVars, davidsonVars, objectVars >>

\* addr = fock_space.countTwoElectronCouplings(onv), for an ONV of the space
CountTwoElectronCouplings ==
    /\ Addressable(fock_space)
    /\ call = "FockSpace"
    /\ \E y \in ONVs(fock_space) :
          /\ word' = y
          /\ addr' \in countTwoElectronCouplings(fock_space, ONV(fock_space.K, fock_space.N, y), 0)
    /\ call' = "countTwoElectronCouplings"
    /\ UNCHANGED << fock_space, binomial, frame, rep, steps, visited, dociVars, davidsonVars, objectVars >>

FockNext ==
    \/ Construct
    \/ BinomialCoefficient
    \/ CalculateDimension
    \/ ConstructWeight
    \/ Constructed
    \/ GetAddress
    \/ CalculateRepresentation
    \/ CalculateRepresentationIteration
    \/ UlongNextPermutation
    \/ StartEnumeration
    \/ NextRepresentation
    \/ CountOneElectronCouplings
    \/ CountTwoElectronCouplings

SpecFock == Init /\ [][FockNext]_vars

\* ------------------------------------ the shift primitives as a state machine

\* the template arguments explored: no electron annihilated before, or one
AnnihilatedBefore == {0, 1}

\* fock_space.shiftUntilNextUnoccupiedOrbital<T>(onv, address, q, e) and its
\* sign variant, for an ONV of the space and any cursor with q <= K, e <= N
ShiftUntilNextUnoccupiedOrbital ==
    /\ Addressable(fock_space)
    /\ call = "FockSpace"
    /\ \E y \in ONVs(fock_space), T \in AnnihilatedBefore,
          q \in 0..fock_space.K, e \in 0..fock_space.N, sign \in {0, 1, -1} :
       \E address \in {0, getAddress(fock_space, y)} :
          LET onv == ONV(fock_space.K, fock_space.N, y)
              plain == [address |-> address, q |-> q, e |-> e]
              before == [address |-> address, q |-> q, e |-> e, sign |-> sign]
          IN  shift' =
                IF sign = 0
                THEN [call |-> "plain", onv |-> onv, T |-> T,
                      before |-> before,
                      after |-> [address |-> shiftUntilNextUnoccupiedOrbital(fock_space, onv, T, plain).address,
                                 q |-> shiftUntilNextUnoccupiedOrbital(fock_space, onv, T, plain).q,
                                 e |-> shiftUntilNextUnoccupiedOrbital(fock_space, onv, T, plain).e,
                                 sign |-> 0]]
                ELSE [call |-> "sign", onv |-> onv, T |-> T,
                      before |-> before,
                      after |-> shiftUntilNextUnoccupiedOrbitalSign(fock_space, onv, T, before)]
    /\ call' = "shiftUntilNextUnoccupiedOrbital"
    /\ UNCHANGED << fock_space, binomial, frame, word, addr, rep, steps, visited >>
    /\ UNCHANGED << expectation, selected_fock_space, frozen_core, onv1, dociVars, davidsonVars >>

ShiftNext ==
    \/ Construct
    \/ BinomialCoefficient
    \/ CalculateDimension
    \/ ConstructWeight
    \/ Constructed
    \/ ShiftUntilNextUnoccupiedOrbital

SpecShift == Init /\ [][ShiftNext]_vars

\* ------------------------------------------ the DOCI builder as a state machine

\* the coefficient vectors matrixVectorProduct is called with: the unit
\* vectors and a ramp
Vectors(dim) ==
    {[I \in 0..(dim - 1) |-> IF I = J THEN 1 ELSE 0] : J \in 0..(dim - 1)}
        \cup {[I \in 0..(dim - 1) |-> I - 1]}

\* DOCI doci (fock_space); with some HamiltonianParameters at hand
DOCI ==
    /\ fock_space.status = "ok"
    /\ fock_space.K <= MaxOrbitals
    /\ doci.pc = "none"
    /\ ham_par' \in HamiltonianParameters(fock_space.K)
    /\ doci' = [NoCall EXCEPT !.pc = "idle"]
    /\ UNCHANGED << results, called, fockVars, davidsonVars, objectVars >>

\* no DOCI method is running
Ready == doci.pc \in {"idle", "returned", "invalid_argument"}

\* the first statements of calculateDiagonal, called as `method' or from it
calculateDiagonalEntry(fs, hamiltonian_parameters, method) ==
    IF Incompatible(hamiltonian_parameters, fs)
    THEN {[NoCall EXCEPT !.method = method, !.pc = "invalid_argument"]}
    ELSE {[NoCall EXCEPT !.method = method, !.pc = "calculateDiagonal",
                         !.diagonal = ZeroVector(get_dimension(fs)),
                         !.onv = onv] : onv \in makeONV(fs, 0)}

\* diagonal = doci.calculateDiagonal(ham_par): the call
CalculateDiagonal ==
    /\ Ready
    /\ "calculateDiagonal" \notin called
    /\ doci' \in calculateDiagonalEntry(fock_space, ham_par, "calculateDiagonal")
    /\ called' = called \cup {"calculateDiagonal"}
    /\ UNCHANGED << ham_par, results, fockVars, davidsonVars, objectVars >>

\* calculateDiagonal: one address I
CalculateDiagonalIteration ==
    /\ doci.pc = "calculateDiagonal"
    /\ doci.I < get_dimension(fock_space)
    /\ doci' = calculateDiagonalIteration(fock_space, ham_par, doci)
    /\ UNCHANGED << ham_par, results, called, fockVars, davidsonVars, objectVars >>

\* calculateDiagonal returns, to its caller or into constructHamiltonian
CalculateDiagonalReturn ==
    /\ doci.pc = "calculateDiagonal"
    /\ ~(doci.I < get_dimension(fock_space))
    /\ IF doci.method = "calculateDiagonal"
       THEN /\ doci' = [doci EXCEPT !.pc = "returned"]
            /\ results' = [results EXCEPT !.calculateDiagonal = doci.diagonal]
       ELSE /\ \E onv \in makeONV(fock_space, 0) :
                  doci' = [doci EXCEPT !.pc = "constructHamiltonian",
                                       !.result_matrix = ZeroMatrix(get_dimension(fock_space)),
                                       !.onv = onv,
                                       !.I = 0]
            /\ UNCHANGED results
    /\ UNCHANGED << ham_par, called, fockVars, davidsonVars, objectVars >>

\* result_matrix = doci.constructHamiltonian(ham_par): the call, which checks
\* K and calls calculateDiagonal
ConstructHamiltonian ==
    /\ Ready
    /\ "constructHamiltonian" \notin called
    /\ doci' \in calculateDiagonalEntry(fock_space, ham_par, "constructHamiltonian")
    /\ called' = called \cup {"constructHamiltonian"}
    /\ UNCHANGED << ham_par, results, fockVars, davidsonVars, objectVars >>

\* constructHamiltonian: one address I
ConstructHamiltonianIteration ==
    /\ doci.pc = "constructHamiltonian"
    /\ doci.I < get_dimension(fock_space)
    /\ doci' = constructHamiltonianIteration(fock_space, ham_par, doci)
    /\ UNCHANGED << ham_par, results, called, fockVars, davidsonVars, objectVars >>

\* constructHamiltonian returns
ConstructHamiltonianReturn ==
    /\ doci.pc = "constructHamiltonian"
    /\ ~(doci.I < get_dimension(fock_space))
    /\ doci' = [doci EXCEPT !.pc = "returned"]
    /\ results' = [results EXCEPT !.constructHamiltonian = doci.result_matrix]
    /\ UNCHANGED << ham_par, called, fockVars, davidsonVars, objectVars >>

\* the diagonals a caller passes: the one calculateDiagonal returned, or zeros
Diagonals ==
    {ZeroVector(get_dimension(fock_space))}
        \cup ({results.calculateDiagonal} \ {<< >>})

\* matvec = doci.matrixVectorProduct(ham_par, x, diagonal): the call
MatrixVectorProduct ==
    /\ Ready
    /\ "matrixVectorProduct" \notin called
    /\ \E x \in Vectors(get_dimension(fock_space)), diagonal \in Diagonals :
          doci' \in
             IF Incompatible(ham_par, fock_space)
             THEN {[NoCall EXCEPT !.method = "matrixVectorProduct",
                                  !.pc = "invalid_argument",
                                  !.x = x, !.diagonal = diagonal]}
             ELSE {[NoCall EXCEPT !.method = "matrixVectorProduct",
                                  !.pc = "matrixVectorProduct",
                                  !.x = x, !.diagonal = diagonal,
                                  !.matvec = [I \in DOMAIN x |-> diagonal[I] * x[I]],
                                  !.onv = onv] : onv \in makeONV(fock_space, 0)}
    /\ called' = called \cup {"matrixVectorProduct"}
    /\ UNCHANGED << ham_par, results, fockVars, davidsonVars, objectVars >>

\* matrixVectorProduct: one address I
MatrixVectorProductIteration ==
    /\ doci.pc = "matrixVectorProduct"
    /\ doci.I < get_dimension(fock_space)
    /\ doci' = matrixVectorProductIteration(fock_space, ham_par, doci)
    /\ UNCHANGED << ham_par, results, called, fockVars, davidsonVars, objectVars >>

\* matrixVectorProduct returns
MatrixVectorProductReturn ==
    /\ doci.pc = "matrixVectorProduct"
    /\ ~(doci.I < get_dimension(fock_space))
    /\ doci' = [doci EXCEPT !.pc = "returned"]
    /\ results' = [results EXCEPT !.matrixVectorProduct = doci.matvec]
    /\ UNCHANGED << ham_par, called, fockVars, davidsonVars, objectVars >>

DOCINext ==
    \/ Construct
    \/ BinomialCoefficient
    \/ CalculateDimension
    \/ ConstructWeight
    \/ Constructed
    \/ DOCI
    \/ CalculateDiagonal
    \/ CalculateDiagonalIteration
    \/ CalculateDiagonalReturn
    \/ ConstructHamiltonian
    \/ ConstructHamiltonianIteration
    \/ ConstructHamiltonianReturn
    \/ MatrixVectorProduct
    \/ MatrixVectorProductIteration
    \/ MatrixVectorProductReturn

SpecDOCI == Init /\ [][DOCINext]_vars

\* --------------------------- a Fock space shared by its callers and a builder

\* the calls on the Fock space and the steps of the DOCI builder that holds
\* it, in any order
SharedNext ==
    \/ Construct
    \/ BinomialCoefficient
    \/ CalculateDimension
    \/ ConstructWeight
    \/ Constructed
    \/ GetAddress
    \/ CalculateRepresentation
    \/ CalculateRepresentationIteration
    \/ UlongNextPermutation
    \/ CountOneElectronCouplings
    \/ CountTwoElectronCouplings
    \/ DOCI
    \/ CalculateDiagonal
    \/ CalculateDiagonalIteration
    \/ CalculateDiagonalReturn
    \/ ConstructHamiltonian
    \/ ConstructHamiltonianIteration
    \/ ConstructHamiltonianReturn
    \/ MatrixVectorProduct
    \/ MatrixVectorProductIteration
    \/ MatrixVectorProductReturn

SpecShared == Init /\ [][SharedNext]_vars

\* ------------------------------- the frozen-core builder as a state machine

\* the integral sets a frozen-core builder is called with
FrozenFamilies == {3}

\* FrozenCoreCI frozen_core (doci, X): the wrapper and the DOCI builder of the
\* active Fock space it owns, with HamiltonianParameters of K + X orbitals
\* at hand
FrozenCoreCI ==
    /\ fock_space.status = "ok"
    /\ fock_space.K <= MaxOrbitals
    /\ doci.pc = "none"
    /\ frozen_core.status = "none"
    /\ \E X \in 1..MaxFrozen, family \in FrozenFamilies :
          frozen_core' = [NoFrozenCore EXCEPT
                             !.status = "constructed",
                             !.X = X,
                             !.ham_par = [K |-> fock_space.K + X, family |-> family, X |-> 0]]
    /\ doci' = [NoCall EXCEPT !.pc = "idle"]
    /\ UNCHANGED << ham_par, results, called, onv1, otherVars, fockVars, davidsonVars >>

\* frozen_core.calculateDiagonal(ham_par): freezeHamiltonianParameters and
\* the call of the active builder's calculateDiagonal
FrozenCoreCalculateDiagonal ==
    /\ frozen_core.status = "constructed"
    /\ frozen_core.pc = "idle"
    /\ Ready
    /\ "calculateDiagonal" \notin called
    /\ ham_par' = freezeHamiltonianParameters(frozen_core.ham_par, frozen_core.X)
    /\ doci' \in calculateDiagonalEntry(fock_space, ham_par', "calculateDiagonal")
    /\ called' = called \cup {"calculateDiagonal"}
    /\ frozen_core' = [frozen_core EXCEPT !.pc = "calculateDiagonal"]
    /\ UNCHANGED << results, onv1, otherVars, fockVars, davidsonVars >>

\* frozen_core.calculateDiagonal: the active builder has returned
FrozenCoreCalculateDiagonalReturn ==
    /\ frozen_core.pc = "calculateDiagonal"
    /\ doci.pc = "returned"
    /\ frozen_core' =
          [frozen_core EXCEPT
              !.pc = "idle",
              !.calculateDiagonal =
                  VectorSum(results.calculateDiagonal,
                            calculateFrozenCoreDiagonal(frozen_core.ham_par, frozen_core.X,
                                                        get_dimension(fock_space)))]
    /\ UNCHANGED << dociVars, onv1, otherVars, fockVars, davidsonVars >>

\* frozen_core.constructHamiltonian(ham_par): freezeHamiltonianParameters and
\* the call of the active builder's constructHamiltonian
FrozenCoreConstructHamiltonian ==
    /\ frozen_core.status = "constructed"
    /\ frozen_core.pc = "idle"
    /\ Ready
    /\ "constructHamiltonian" \notin called
    /\ ham_par' = freezeHamiltonianParameters(frozen_core.ham_par, frozen_core.X)
    /\ doci' \in calculateDiagonalEntry(fock_space, ham_par', "constructHamiltonian")
    /\ called' = called \cup {"constructHamiltonian"}
    /\ frozen_core' = [frozen_core EXCEPT !.pc = "constructHamiltonian"]
    /\ UNCHANGED << results, onv1, otherVars, fockVars, davidsonVars >>

\* frozen_core.constructHamiltonian: the active builder has returned
FrozenCoreConstructHamiltonianReturn ==
    /\ frozen_core.pc = "constructHamiltonian"
    /\ doci.pc = "returned"
    /\ frozen_core' =
          [frozen_core EXCEPT
              !.pc = "idle",
              !.constructHamiltonian =
                  asDiagonal(results.constructHamiltonian,
                             calculateFrozenCoreDiagonal(frozen_core.ham_par, frozen_core.X,
                                                         get_dimension(fock_space)))]
    /\ UNCHANGED << dociVars, onv1, otherVars, fockVars, davidsonVars >>

FrozenCoreNext ==
    \/ Construct
    \/ BinomialCoefficient
    \/ CalculateDimension
    \/ ConstructWeight
    \/ Constructed
    \/ FrozenCoreCI
    \/ FrozenCoreCalculateDiagonal
    \/ CalculateDiagonalIteration
    \/ CalculateDiagonalReturn
    \/ FrozenCoreCalculateDiagonalReturn
    \/ FrozenCoreConstructHamiltonian
    \/ ConstructHamiltonianIteration
    \/ ConstructHamiltonianReturn
    \/ FrozenCoreConstructHamiltonianReturn

SpecFrozenCore == Init /\ [][FrozenCoreNext]_vars

\* ----------------------------------------------- an ONV as a state machine

\* ONV onv1 (K, N, unsigned_representation), with N bits set among the K
\* lowest, and an int sign for the calls that take one
NewONV ==
    /\ onv1.status = "none"
    /\ \E K \in 1..MaxOrbitals, sign \in {1, -1} :
          \E N \in 0..K :
             \E unsigned_representation \in Combinations(K, N) :
                onv1' = [NoONV EXCEPT !.status = "ok",
                                      !.onv = ONV(K, N, unsigned_representation),
                                      !.before = ONV(K, N, unsigned_representation),
                                      !.sign = sign,
                                      !.before_sign = sign]
    /\ UNCHANGED << frozen_core, otherVars, fockVars, dociVars, davidsonVars >>

\* an ONV call can be made
Callable == onv1.status = "ok" /\ onv1.operations < MaxOperations

\* the ONV and the sign as a call found them, and the call
Called(name, p) ==
    [onv1 EXCEPT !.call = name, !.p = p, !.before = onv1.onv, !.before_sign = onv1.sign,
                 !.operations = @ + 1]

\* onv1.annihilate(p)
Annihilate ==
    /\ Callable
    /\ \E p \in 0..(onv1.onv.K - 1) :
          LET r == annihilate(onv1.onv, p)
          IN  onv1' = [Called("annihilate", p) EXCEPT
                          !.onv = r.onv,
                          !.returned = r.returned,
                          !.annihilated = IF r.returned THEN @ + 1 ELSE @]
    /\ UNCHANGED << frozen_core, otherVars, fockVars, dociVars, davidsonVars >>

\* onv1.annihilate(p, sign)
AnnihilateSign ==
    /\ Callable
    /\ \E p \in 0..(onv1.onv.K - 1) :
          LET r == annihilateSign(onv1.onv, p, onv1.sign)
          IN  onv1' = [Called("annihilate", p) EXCEPT
                          !.onv = r.onv,
                          !.sign = r.sign,
                          !.returned = r.returned,
                          !.annihilated = IF r.returned THEN @ + 1 ELSE @]
    /\ UNCHANGED << frozen_core, otherVars, fockVars, dociVars, davidsonVars >>

\* onv1.create(p)
Create ==
    /\ Callable
    /\ \E p \in 0..(onv1.onv.K - 1) :
          LET r == create(onv1.onv, p)
          IN  onv1' = [Called("create", p) EXCEPT
                          !.onv = r.onv,
                          !.returned = r.returned,
                          !.created = IF r.returned THEN @ + 1 ELSE @]
    /\ UNCHANGED << frozen_core, otherVars, fockVars, dociVars, davidsonVars >>

\* onv1.create(p, sign)
CreateSign ==
    /\ Callable
    /\ \E p \in 0..(onv1.onv.K - 1) :
          LET r == createSign(onv1.onv, p, onv1.sign)
          IN  onv1' = [Called("create", p) EXCEPT
                          !.onv = r.onv,
                          !.sign = r.sign,
                          !.returned = r.returned,
                          !.created = IF r.returned THEN @ + 1 ELSE @]
    /\ UNCHANGED << frozen_core, otherVars, fockVars, dociVars, davidsonVars >>

\* onv1.set_representation(unsigned_representation), with N bits set
SetRepresentation ==
    /\ Callable
    /\ \E unsigned_representation \in Combinations(onv1.onv.K, onv1.onv.N) :
          onv1' = [Called("set_representation", 0) EXCEPT
                      !.onv = set_representation(onv1.onv, unsigned_representation),
                      !.annihilated = 0,
                      !.created = 0]
    /\ UNCHANGED << frozen_core, otherVars, fockVars, dociVars, davidsonVars >>

\* onv1.updateOccupationIndices()
UpdateOccupationIndices ==
    /\ Callable
    /\ onv1' = [Called("updateOccupationIndices", 0) EXCEPT
                    !.onv = updateOccupationIndicesInPlace(onv1.onv)]
    /\ UNCHANGED << frozen_core, otherVars, fockVars, dociVars, davidsonVars >>

ONVNext ==
    \/ NewONV
    \/ Annihilate
    \/ AnnihilateSign
    \/ Create
    \/ CreateSign
    \/ SetRepresentation
    \/ UpdateOccupationIndices

SpecONV == Init /\ [][ONVNext]_vars

\* ------------------------------------ a SelectedFockSpace as a state machine

\* the strings of '0' and '1' of at most MaxStringLength characters
Strings == UNION {[1..n -> {0, 1}] : n \in 0..MaxStringLength}

\* SelectedFockSpace selected_fock_space (K, N_alpha, N_beta);
NewSelectedFockSpace ==
    /\ selected_fock_space.status = "none"
    /\ \E K \in 1..(MaxStringLength - 1) :
       \E N_alpha, N_beta \in 0..K :
          selected_fock_space' = SelectedFockSpace(K, N_alpha, N_beta)
    /\ UNCHANGED << expectation, shift, frozen_core, onv1, fockVars, dociVars, davidsonVars >>

\* selected_fock_space.addConfiguration(onv1, onv2); an exception is caught
\* by the caller, who goes on using the object
AddConfiguration ==
    /\ selected_fock_space.status # "none"
    /\ selected_fock_space.dim < MaxConfigurations
    /\ \E string1, string2 \in Strings :
          selected_fock_space' = addConfiguration(selected_fock_space, string1, string2)
    /\ UNCHANGED << expectation, shift, frozen_core, onv1, fockVars, dociVars, davidsonVars >>

\* selected_fock_space.addConfiguration(onv1s, onv2s), for vectors of at
\* most two strings
AddConfigurations ==
    /\ selected_fock_space.status # "none"
    /\ selected_fock_space.dim + 2 <= MaxConfigurations
    /\ \E n1, n2 \in 0..2 :
       \E strings1 \in [1..n1 -> Strings], strings2 \in [1..n2 -> Strings] :
          selected_fock_space' = addConfigurations(selected_fock_space, strings1, strings2)
    /\ UNCHANGED << expectation, shift, frozen_core, onv1, fockVars, dociVars, davidsonVars >>

SelectedNext ==
    \/ NewSelectedFockSpace
    \/ AddConfiguration
    \/ AddConfigurations

SpecSelected == Init /\ [][SelectedNext]_vars

\* --------------------------------------- expectation values as a state machine

\* calculateExpectationValue(h, D), for a one-electron operator and a 1-RDM
\* of any two dimensions
CalculateExpectationValueOne ==
    /\ \E op_K, rdm_K \in 1..MaxOrbitals, family \in Families, kind \in RDMKinds :
          LET r == calculateExpectationValueOne(OneElectronOperator(op_K, family),
                                                OneRDM(rdm_K, kind))
          IN  expectation' = [call |-> "one", op_K |-> op_K, rdm_K |-> rdm_K,
                              family |-> family, kind |-> kind,
                              status |-> r.status, value |-> r.value]
    /\ UNCHANGED << selected_fock_space, shift, frozen_core, onv1, fockVars, dociVars, davidsonVars >>

\* calculateExpectationValue(g, d), for a two-electron operator and a 2-RDM
\* of any two dimensions
CalculateExpectationValueTwo ==
    /\ \E op_K, rdm_K \in 1..MaxOrbitals, family \in Families, kind \in RDMKinds :
          LET r == calculateExpectationValueTwo([K |-> op_K, family |-> family],
                                                [K |-> rdm_K, kind |-> kind])
          IN  expectation' = [call |-> "two", op_K |-> op_K, rdm_K |-> rdm_K,
                              family |-> family, kind |-> kind,
                              status |-> r.status, value |-> r.value]
    /\ UNCHANGED << selected_fock_space, shift, frozen_core, onv1, fockVars, dociVars, davidsonVars >>

ExpectationNext ==
    \/ CalculateExpectationValueOne
    \/ CalculateExpectationValueTwo

SpecExpectation == Init /\ [][ExpectationNext]_vars

\* ---------------------------------- the Davidson solver as a state machine

\* a loop that is entered whether the solver is solved or not
whileAlways(solver) == TRUE

\* while (!(this->_is_solved)), on entry of solve
whileNotSolved(solver) == ~solver.is_solved

\* DavidsonSolver davidson_solver (matrixVectorProduct, diagonal, V_0,
\* number_of_requested_eigenpairs, ..., maximum_subspace_dimension,
\* collapsed_subspace_dimension, ...): the object, or std::invalid_argument
DavidsonSolver ==
    /\ davidson_solver.status = "none"
    /\ optimizer.status = "none"
    /\ \E V_0_cols, number_of_requested_eigenpairs, maximum_subspace_dimension,
          collapsed_subspace_dimension \in 0..MaxSubspace,
          maximum_number_of_iterations \in 0..MaxIterations :
          davidson_solver' =
             [status |-> IF DavidsonSolverThrows(V_0_cols, number_of_requested_eigenpairs,
                                maximum_subspace_dimension, collapsed_subspace_dimension)
                         THEN "invalid_argument" ELSE "constructed",
              V_0_cols |-> V_0_cols,
              number_of_requested_eigenpairs |-> number_of_requested_eigenpairs,
              maximum_subspace_dimension |-> maximum_subspace_dimension,
              collapsed_subspace_dimension |-> collapsed_subspace_dimension,
              dim |-> MaxRows,
              maximum_number_of_iterations |-> maximum_number_of_iterations,
              number_of_iterations |-> 0,
              is_solved |-> FALSE,
              eigenpairs |-> 0]
    /\ UNCHANGED << subspace, optimizer, query, fockVars, dociVars, objectVars >>

\* davidson_solver.solve() is entered, for the first time or again after it
\* returned or threw: VA, V and S from the initial guesses, which are
\* orthonormal columns; the loop is skipped on a solved solver
Solve ==
    /\ davidson_solver.status = "constructed"
    /\ subspace.pc \in {"none", "returned", "runtime_error"}
    /\ davidson_solver.number_of_iterations <= MaxIterations
    /\ davidson_solver.V_0_cols <= davidson_solver.dim
    /\ LET V_0 == [j \in 1..davidson_solver.V_0_cols |-> UnitVector(davidson_solver.dim, j)]
           VA == [j \in 1..Len(V_0) |-> VectorFunction(davidson_solver.dim, V_0[j])]
       IN  subspace' = [NoSubspace EXCEPT
                           !.pc = IF whileNotSolved(davidson_solver)
                                  THEN "diagonalise" ELSE "returned",
                           !.V = V_0, !.VA = VA, !.S = ProjectedMatrix(V_0, VA)]
    /\ UNCHANGED << davidson_solver, optimizer, query, fockVars, dociVars, objectVars >>

\* the head of the while loop: S is diagonalised, the residuals are tested,
\* and the solver has converged, has failed, or goes on to the corrections.
\* subspace.iterations counts the iterations this call of solve has begun.
\* Whether the residual norms are below the threshold is not computed.
Diagonalise ==
    /\ subspace.pc = "diagonalise"
    /\ \E eigenvectors \in Eigenvectors(Len(subspace.S)), converged \in BOOLEAN :
          /\ davidson_solver.number_of_requested_eigenpairs = 0 => converged
          /\ IF converged
             THEN /\ davidson_solver' =
                        [davidson_solver EXCEPT
                            !.is_solved = TRUE,
                            !.eigenpairs = @ + davidson_solver.number_of_requested_eigenpairs]
                  /\ subspace' = [subspace EXCEPT !.pc = "returned", !.iterations = @ + 1]
             ELSE /\ davidson_solver' = [davidson_solver EXCEPT !.number_of_iterations = @ + 1]
                  /\ subspace' =
                        IF IterationLimitReached(davidson_solver'.number_of_iterations,
                                                 davidson_solver.maximum_number_of_iterations)
                        THEN [subspace EXCEPT !.pc = "runtime_error", !.iterations = @ + 1]
                        ELSE [subspace EXCEPT !.pc = "expand", !.column_index = 0,
                                              !.eigenvectors = eigenvectors,
                                              !.iterations = @ + 1]
    /\ UNCHANGED << optimizer, query, fockVars, dociVars, objectVars >>

\* one correction vector: projected, and appended if its norm is large
\* enough, after a collapse if V is full.  The correction vectors are not
\* computed: each is any unit vector.
Expand ==
    /\ subspace.pc = "expand"
    /\ subspace.column_index < davidson_solver.number_of_requested_eigenpairs
    /\ \E k \in 1..davidson_solver.dim :
          subspace' \in ExpandSubspace(subspace, UnitVector(davidson_solver.dim, k),
                            davidson_solver.dim,
                            davidson_solver.maximum_subspace_dimension,
                            davidson_solver.collapsed_subspace_dimension)
    /\ UNCHANGED << davidson_solver, optimizer, query, fockVars, dociVars, objectVars >>

\* the end of the loop body: S is extended to the columns of V
Extend ==
    /\ subspace.pc = "expand"
    /\ ~(subspace.column_index < davidson_solver.number_of_requested_eigenpairs)
    /\ subspace' = [subspace EXCEPT
                       !.pc = "diagonalise",
                       !.S = ExtendSubspaceMatrix(subspace.S, subspace.V, subspace.VA)]
    /\ UNCHANGED << davidson_solver, optimizer, query, fockVars, dociVars, objectVars >>

\* davidson_solver.get_number_of_iterations(), outside solve
GetNumberOfIterations ==
    /\ davidson_solver.status = "constructed"
    /\ subspace.pc \in {"none", "returned", "runtime_error"}
    /\ query' = [call |-> "get_number_of_iterations",
                 result |-> get_number_of_iterations(davidson_solver),
                 converged |-> davidson_solver.is_solved, index |-> 0]
    /\ UNCHANGED << davidson_solver, subspace, optimizer, fockVars, dociVars, objectVars >>

\* the end of an iteration that goes on: this->ham_par.rotate(U).  The
\* integrals are not computed: the basis is one of two, and a rotation changes
\* it.
rotate(orbital_optimizer) == [orbital_optimizer EXCEPT !.basis = 1 - @]

\* DOCINewtonOrbitalOptimizer orbital_optimizer (doci, ham_par);
DOCINewtonOrbitalOptimizer ==
    /\ optimizer.status = "none"
    /\ davidson_solver.status = "none"
    /\ \E maximum_number_of_iterations \in 1..MaxIterations :
          optimizer' = [NoOptimizer EXCEPT
                           !.status = "constructed",
                           !.maximum_number_of_iterations = maximum_number_of_iterations]
    /\ UNCHANGED << davidson_solver, subspace, query, fockVars, dociVars, objectVars >>

\* orbital_optimizer.solve(solver_options, oo_options) is entered
OptimizerSolve ==
    /\ optimizer.status \in {"constructed", "returned", "runtime_error"}
    /\ optimizer' = [optimizer EXCEPT !.status = "solving", !.is_converged = FALSE,
                                      !.oo_iterations = 0]
    /\ UNCHANGED << davidson_solver, subspace, query, fockVars, dociVars, objectVars >>

\* one iteration of the orbital optimization.  The CI solver, the gradient
\* and the Hessian are not computed: the CI solver throws or not, the
\* gradient norm is below the threshold or not, and the lowest Hessian
\* eigenvalue is negative or not; the CI solver was asked for any number of
\* eigenpairs.
OptimizerIteration ==
    /\ optimizer.status = "solving"
    /\ \E ci_solved, critical_point, negative_eigenvalue \in BOOLEAN,
          eigenpairs \in 1..MaxSubspace :
          optimizer' =
             IF ~ci_solved THEN [optimizer EXCEPT !.status = "runtime_error"]
             ELSE IF critical_point
             THEN IF negative_eigenvalue THEN rotate(optimizer)
                  ELSE [optimizer EXCEPT !.is_converged = TRUE, !.status = "returned",
                                         !.eigenpairs = eigenpairs]
             ELSE IF optimizer.oo_iterations + 1 >= optimizer.maximum_number_of_iterations
             THEN [optimizer EXCEPT !.oo_iterations = @ + 1, !.status = "runtime_error"]
             ELSE rotate([optimizer EXCEPT !.oo_iterations = @ + 1])
    /\ UNCHANGED << davidson_solver, subspace, query, fockVars, dociVars, objectVars >>

\* orbital_optimizer.get_eigenpairs() or get_eigenpair(index), outside solve
GetEigenpairs ==
    /\ optimizer.status \in {"constructed", "returned", "runtime_error"}
    /\ \E getter \in {"get_eigenpairs", "get_eigenpair"} :
          query' = [call |-> getter,
                    result |-> get_eigenpairs(optimizer),
                    converged |-> optimizer.is_converged, index |-> 0]
    /\ UNCHANGED << davidson_solver, subspace, optimizer, fockVars, dociVars, objectVars >>

\* orbital_optimizer.makeWavefunction(index), outside solve
MakeWavefunction ==
    /\ optimizer.status \in {"constructed", "returned", "runtime_error"}
    /\ \E index \in 0..(MaxSubspace + 1) :
       \E result \in makeWavefunction(optimizer, index) :
          query' = [call |-> "makeWavefunction", result |-> result,
                    converged |-> optimizer.is_converged, index |-> index]
    /\ UNCHANGED << davidson_solver, subspace, optimizer, fockVars, dociVars, objectVars >>

DavidsonNext ==
    \/ DavidsonSolver
    \/ Solve
    \/ Diagonalise
    \/ Expand
    \/ Extend
    \/ GetNumberOfIterations
    \/ DOCINewtonOrbitalOptimizer
    \/ OptimizerSolve
    \/ OptimizerIteration
    \/ GetEigenpairs
    \/ MakeWavefunction

SpecDavidson == Init /\ [][DavidsonNext]_vars

\* solve and the optimizer's solve run their statements one after the other:
\* a step of a running call that stays possible is taken
SpecDavidsonFair ==
    /\ SpecDavidson
    /\ WF_vars(Diagonalise)
    /\ WF_vars(Expand)
    /\ WF_vars(Extend)
    /\ WF_vars(OptimizerIteration)

\* ------------------------------------------------- properties of the Fock space

\* calculateRepresentation has returned
Returned == frame.pc = "return"

\* C1: round trip of the addressing scheme.  For every (K, N) with
\* 0 <= N <= K <= 60 and every K-bit pattern x with N bits set,
\* calculateRepresentation(getAddress(x)) is x again.
C1_RoundTrip ==
    (call = "calculateRepresentation" /\ Returned /\ fock_space.K <= 60)
        => rep = word

\* C2: getAddress is strictly increasing in the numeric value of the
\* representation: the ONVs below the word passed have a smaller address and
\* the ONVs above it a larger one.
C2_AddressIncreasing ==
    call = "getAddress" =>
        \A y \in ONVs(fock_space) :
            /\ WordLess(word, y) => addr < getAddress(fock_space, y)
            /\ WordLess(y, word) => getAddress(fock_space, y) < addr

\* an ONV in the middle of its space has been addressed
C2_Addressed ==
    /\ call = "getAddress"
    /\ fock_space.K = 4 /\ fock_space.N = 2
    /\ word = {0, 2}
    /\ addr = 1

\* C3: enumeration in address order.  Starting from calculateRepresentation(0),
\* the representation reached after I applications of ulongNextPermutation is
\* an ONV of the space, its address is I, and I + 1 distinct representations
\* have been visited.
C3_EnumerationInAddressOrder ==
    (call = "enumerate" /\ Returned) =>
        /\ rep \in ONVs(fock_space)
        /\ getAddress(fock_space, rep) = steps
        /\ Cardinality(visited) = steps + 1

\* the numerically largest K-bit pattern with c bits set
LargestWord(K, c) == (K - c)..(K - 1)

\* C4: for a non-zero K-bit word that is not the largest pattern of its
\* population count, ulongNextPermutation returns a K-bit word with the same
\* population count, greater than the word, with no such word in between.
C4_NextPermutation ==
    (call = "ulongNextPermutation"
        /\ word # LargestWord(fock_space.K, Cardinality(word))) =>
        LET same == Combinations(fock_space.K, Cardinality(word))
        IN  /\ rep \in same
            /\ WordLess(word, rep)
            /\ \A z \in same : WordLess(word, z) => ~WordLess(z, rep)

\* 011 -> 101
C4_Permuted ==
    /\ call = "ulongNextPermutation"
    /\ fock_space.K = 3
    /\ word = {0, 1}
    /\ rep = {0, 2}

\* C5: after construction the vertex weights are 1 in column 0 down to row
\* K - N, follow W(p,m) = W(p-1,m) + W(p-1,m-1) for 1 <= m <= N and
\* m <= p <= K - N + m, are 0 elsewhere, and W(K,N) is the dimension, which
\* is the binomial coefficient C(K,N).
C5_WeightTable ==
    fock_space.status = "ok" =>
        LET K == fock_space.K
            N == fock_space.N
            W == fock_space.vertex_weights
        IN  /\ \A p \in 0..K : \A m \in 0..N :
                  W[p][m] = IF m = 0 THEN (IF p <= K - N THEN One ELSE Zero)
                            ELSE IF m <= p /\ p <= K - N + m
                                 THEN BigAdd(W[p - 1][m], W[p - 1][m - 1])
                                 ELSE Zero
            /\ W[K][N] = fock_space.dim
            /\ fock_space.dim = binomial

\* calculateDimension has been left
DimensionCalculated == fock_space.status # "none" /\ frame.pc # "binomial_coefficient"

\* C6: a construction with N > K, or with a binomial coefficient that does not
\* fit in 64 bits, ends with an exception: no dimension is stored and no
\* weight table is built.
C6_ErrorSignalled ==
    (DimensionCalculated
        /\ (fock_space.N > fock_space.K \/ ~BigLess(binomial, WordLimit))) =>
        /\ fock_space.status \in {"domain_error", "overflow_error"}
        /\ fock_space.dim = Zero
        /\ fock_space.vertex_weights = << >>

\* C(68, 34) does not fit and the constructor has thrown
C6_Overflowed ==
    /\ fock_space.status = "overflow_error"
    /\ fock_space.K = 68 /\ fock_space.N = 34
    /\ ~BigLess(binomial, WordLimit)

\* the ONVs of the space with a larger address than x that differ from x by
\* between 1 and n electron replacements
Coupled(fs, x, n) ==
    {y \in ONVs(fs) : /\ getAddress(fs, y) > getAddress(fs, x)
                      /\ Cardinality(x \ y) \in 1..n}

\* the (I, J) updates the loops of DOCI::constructHamiltonian make for the
\* row of the ONV x
RowUpdates(fs, x) ==
    annihilationLoop(fs, fs.K, ONV(fs.K, fs.N, x), getAddress(fs, x), 0)

\* C18: countOneElectronCouplings(onv) is the number of ONVs with a larger
\* address that differ from onv by moving one electron, and it is the number
\* of off-diagonal updates constructHamiltonian makes for the row of onv, one
\* for each of these ONVs.
C18_CountsSingleReplacements ==
    call = "countOneElectronCouplings" =>
        /\ addr = Cardinality(Coupled(fock_space, word, 1))
        /\ addr = Len(RowUpdates(fock_space, word))
        /\ {RowUpdates(fock_space, word)[i].J : i \in 1..addr}
              = {getAddress(fock_space, y) : y \in Coupled(fock_space, word, 1)}

\* the count of an ONV of two electrons in four orbitals that couples with
\* three ONVs above it and one below it
C18_Counted ==
    /\ call = "countOneElectronCouplings"
    /\ fock_space.K = 4
    /\ fock_space.N = 2
    /\ word = {0, 2}
    /\ addr = 3

C23_WorkingONVHasAddressI ==
    (call = "enumerate" /\ Returned) =>
        /\ \A b \in rep : b < fock_space.K
        /\ steps <= get_dimension(fock_space) - 1
        /\ getAddress(fock_space, rep) = steps

\* ------------------------------------------- properties of the shift primitives

\* the sum over the c orbitals crossed from (q, e) on of
\* W(q', e' + 1 - T) - W(q', e' + 1)
RECURSIVE WeightDifferential(_, _, _, _, _)
WeightDifferential(fs, T, q, e, c) ==
    IF c = 0 THEN 0
    ELSE get_vertex_weights(fs, q, e + 1 - T) - get_vertex_weights(fs, q, e + 1)
         + WeightDifferential(fs, T, q + 1, e + 1, c - 1)

\* what the shift promises of the cursor it leaves behind
ShiftPostcondition ==
    LET occupied == shift.onv.unsigned_representation
        c == shift.after.q - shift.before.q
    IN  /\ shift.after.e = fock_space.N \/ shift.after.q \notin occupied
        /\ c = shift.after.e - shift.before.e
        /\ c >= 0
        /\ \A i \in 0..(c - 1) : shift.before.q + i \in occupied
        /\ shift.after.address
              = shift.before.address
                + WeightDifferential(fock_space, shift.T, shift.before.q, shift.before.e, c)
        /\ shift.call = "sign" =>
              shift.after.sign = (IF c % 2 = 0 THEN shift.before.sign ELSE -shift.before.sign)

\* C25 as stated: called with e <= N and q not above the orbital of electron
\* e, the shift returns with e = N or q unoccupied, q and e advanced by the
\* number c of consecutive occupied orbitals crossed, the address changed by
\* the sum of W(q', e'+1-T) - W(q', e'+1) over them, and the sign multiplied
\* by (-1)^c.
C25_ShiftFromAnyLowerOrbital ==
    (/\ shift.call # "none"
     /\ shift.before.e < fock_space.N =>
            shift.before.q <= get_occupation_index(shift.onv, shift.before.e))
        => ShiftPostcondition

\* C25, amended: called with e equal to the number of electrons of the ONV in
\* the orbitals below q, the shift returns with e = N or q unoccupied, q and e
\* advanced by the number c of consecutive occupied orbitals crossed, the
\* address changed by the sum of W(q', e'+1-T) - W(q', e'+1) over them, and
\* the sign multiplied by (-1)^c.
C25_ShiftFromCountedCursor ==
    (/\ shift.call # "none"
     /\ shift.before.e
          = Cardinality({b \in shift.onv.unsigned_representation : b < shift.before.q}))
        => ShiftPostcondition

\* the sign variant has crossed two occupied orbitals from a counted cursor
\* and stopped at an unoccupied orbital below the last electron
C25_CrossedTwo ==
    /\ shift.call = "sign"
    /\ shift.T = 1
    /\ shift.before.e
          = Cardinality({b \in shift.onv.unsigned_representation : b < shift.before.q})
    /\ shift.after.q = shift.before.q + 2
    /\ shift.after.e < fock_space.N

\* ------------------------------------------------ properties of the DOCI builder

\* constructHamiltonian has returned its matrix
HamiltonianReturned == results.constructHamiltonian # << >>

\* C7: for integrals over the K of the Fock space whose g is symmetric under
\* pair exchange, the matrix constructHamiltonian returns is symmetric, and
\* its diagonal is the vector calculateDiagonal returns.
C7_SymmetricWithDiagonal ==
    (HamiltonianReturned /\ PairSymmetric(ham_par)) =>
        LET H == results.constructHamiltonian
        IN  /\ \A I, J \in DOMAIN H : H[I][J] = H[J][I]
            /\ results.calculateDiagonal # << >> =>
                  \A I \in DOMAIN H : H[I][I] = results.calculateDiagonal[I]

\* both results are at hand for K = 4, N = 2 and pair-symmetric integrals,
\* and the addresses 0 and 1 are coupled
C7_Constructed ==
    /\ HamiltonianReturned
    /\ results.calculateDiagonal # << >>
    /\ fock_space.K = 4 /\ fock_space.N = 2
    /\ ham_par.family = 1
    /\ results.constructHamiltonian[0][1] # 0

\* matrixVectorProduct has returned, having been passed the diagonal
\* calculateDiagonal returned, and the matrix is at hand
ProductReturned ==
    /\ doci.method = "matrixVectorProduct"
    /\ doci.pc = "returned"
    /\ HamiltonianReturned
    /\ doci.diagonal = results.calculateDiagonal

\* C8: matrixVectorProduct(ham_par, x, calculateDiagonal(ham_par)) is
\* constructHamiltonian(ham_par) * x, component by component.
C8_MatrixFreeAgrees ==
    ProductReturned =>
        results.matrixVectorProduct = MatrixTimes(results.constructHamiltonian, doci.x)

\* the product with the ramp vector for K = 4, N = 2
C8_Multiplied ==
    /\ ProductReturned
    /\ fock_space.K = 4 /\ fock_space.N = 2
    /\ doci.x[0] = -1 /\ doci.x[5] = 4
    /\ results.matrixVectorProduct # ZeroVector(6)

\* C9: called with integrals whose orbital count differs from the K of the
\* Fock space, each of the three methods ends with std::invalid_argument,
\* with no ONV made, no address visited, nothing accumulated and nothing
\* returned.
C9_InvalidArgumentFirst ==
    (doci.method # "none" /\ ham_par.K # fock_space.K) =>
        /\ doci.pc = "invalid_argument"
        /\ doci.I = 0
        /\ doci.onv = << >>
        /\ doci.result_matrix = << >>
        /\ doci.matvec = << >>
        /\ doci.method # "matrixVectorProduct" => doci.diagonal = << >>
        /\ results = NoResults

\* the three methods have been called with integrals over K + 1 orbitals,
\* matrixVectorProduct last
C9_Rejected ==
    /\ ham_par.K = fock_space.K + 1
    /\ called = {"calculateDiagonal", "constructHamiltonian", "matrixVectorProduct"}
    /\ doci.method = "matrixVectorProduct"
    /\ doci.pc = "invalid_argument"

\* a DOCI method that couples addresses is inside its loop over I
InCouplingLoop ==
    /\ doci.pc \in {"constructHamiltonian", "matrixVectorProduct"}
    /\ doci.I < get_dimension(fock_space)

\* the couplings the loops over e1 and q find for the working ONV
WorkingCouplings == annihilationLoop(fock_space, fock_space.K, doci.onv, doci.I, 0)

\* C22: in the DOCI loops, for the address I of the working ONV, the pairs
\* (p, q) visited are exactly the occupied p and the unoccupied q > p, and the
\* address J computed incrementally for (p, q) is getAddress of the
\* representation with bit p cleared and bit q set; I < J < dim and the J of
\* one row are distinct.
C22_IncrementalAddressIsExact ==
    InCouplingLoop =>
        LET occupied == doci.onv.unsigned_representation
            cs == WorkingCouplings
            pairs == {pq \in occupied \X ((0..(fock_space.K - 1)) \ occupied) : pq[2] > pq[1]}
        IN  /\ {<< cs[i].p, cs[i].q >> : i \in DOMAIN cs} = pairs
            /\ Len(cs) = Cardinality(pairs)
            /\ \A i \in DOMAIN cs :
                  /\ cs[i].J = getAddress(fock_space, (occupied \ {cs[i].p}) \cup {cs[i].q})
                  /\ doci.I < cs[i].J
                  /\ cs[i].J < get_dimension(fock_space)
            /\ \A i, j \in DOMAIN cs : i # j => cs[i].J # cs[j].J

\* constructHamiltonian is at an ONV of FockSpace(4, 2) in which a coupling
\* moves an electron across an occupied orbital
C22_CrossesOccupied ==
    /\ InCouplingLoop
    /\ doci.pc = "constructHamiltonian"
    /\ fock_space.K = 4
    /\ fock_space.N = 2
    /\ \E i \in DOMAIN WorkingCouplings :
          \E r \in doci.onv.unsigned_representation :
              WorkingCouplings[i].p < r /\ r < WorkingCouplings[i].q

\* ------------------------------------------- properties of the shared Fock space

\* the number of ONVs of the set below x: its address
Rank(onvs, x) == Cardinality({z \in onvs : WordLess(z, x)})

\* the diagonal element of the ONV x, evaluated on its own
SequentialDiagonal(fs, hamiltonian_parameters, x) ==
    calculateDiagonalE1(hamiltonian_parameters, ONV(fs.K, fs.N, x), 0, 0)

\* the off-diagonal element of the ONVs x and y, evaluated on its own:
\* g(p,q,p,q) when they differ by one orbital p < q
SequentialCoupling(hamiltonian_parameters, x, y) ==
    LET d == (x \ y) \cup (y \ x)
    IN  IF Cardinality(d) = 2
        THEN get_g(hamiltonian_parameters, Ctz(d), Top(d), Ctz(d), Top(d))
        ELSE 0

\* sum of SequentialCoupling(x, y) * coefficients(address of y) over the
\* ONVs y of the set
RECURSIVE SequentialProduct(_, _, _, _, _)
SequentialProduct(hamiltonian_parameters, onvs, coefficients, x, rest) ==
    IF rest = {}
    THEN 0
    ELSE LET y == CHOOSE z \in rest : TRUE
         IN  SequentialCoupling(hamiltonian_parameters, x, y) * coefficients[Rank(onvs, y)]
                + SequentialProduct(hamiltonian_parameters, onvs, coefficients, x, rest \ {y})

\* the results `returned' of a builder in the state `builder', called with
\* the integrals hamiltonian_parameters, are those of its methods run on
\* their own
SequentialResults(fs, hamiltonian_parameters, builder, returned) ==
    LET onvs == ONVs(fs)
    IN  /\ returned.calculateDiagonal # << >> =>
              \A x \in onvs :
                 returned.calculateDiagonal[Rank(onvs, x)]
                    = SequentialDiagonal(fs, hamiltonian_parameters, x)
        /\ returned.constructHamiltonian # << >> =>
              \A x, y \in onvs :
                 returned.constructHamiltonian[Rank(onvs, x)][Rank(onvs, y)]
                    = IF x = y
                      THEN SequentialDiagonal(fs, hamiltonian_parameters, x)
                      ELSE SequentialCoupling(hamiltonian_parameters, x, y)
        /\ (builder.method = "matrixVectorProduct" /\ builder.pc = "returned") =>
              \A x \in onvs :
                 returned.matrixVectorProduct[Rank(onvs, x)]
                    = builder.diagonal[Rank(onvs, x)] * builder.x[Rank(onvs, x)]
                        + SequentialProduct(hamiltonian_parameters, onvs, builder.x, x, onvs \ {x})

RECURSIVE FrozenCoreEnergy(_, _, _, _)
FrozenCoreEnergy(ham_par_total, X, i, j) ==
    IF i >= X
    THEN 0
    ELSE IF j >= X
         THEN 2 * get_h(ham_par_total, i, i) + FrozenCoreEnergy(ham_par_total, X, i + 1, 0)
         ELSE 2 * get_g(ham_par_total, i, i, j, j) - get_g(ham_par_total, i, j, j, i)
                 + FrozenCoreEnergy(ham_par_total, X, i, j + 1)

\* C15: a FrozenCoreCI over X frozen orbitals passes parameters over K - X
\* orbitals to the builder it wraps; the matrix it returns is the wrapped
\* builder's matrix plus c times the identity and the diagonal it returns is
\* the wrapped builder's diagonal plus c at every address, where c is the
\* closed-form energy of the frozen core.
C15_FrozenCoreShift ==
    frozen_core.status = "constructed" =>
        LET c == FrozenCoreEnergy(frozen_core.ham_par, frozen_core.X, 0, 0)
        IN  /\ doci.method # "none" =>
                  /\ ham_par.K = frozen_core.ham_par.K - frozen_core.X
                  /\ ham_par.K = fock_space.K
            /\ frozen_core.constructHamiltonian # << >> =>
                  /\ DOMAIN frozen_core.constructHamiltonian = 0..(get_dimension(fock_space) - 1)
                  /\ \A I, J \in DOMAIN frozen_core.constructHamiltonian :
                        frozen_core.constructHamiltonian[I][J]
                            = results.constructHamiltonian[I][J] + IF I = J THEN c ELSE 0
            /\ frozen_core.calculateDiagonal # << >> =>
                  /\ DOMAIN frozen_core.calculateDiagonal = 0..(get_dimension(fock_space) - 1)
                  /\ \A I \in DOMAIN frozen_core.calculateDiagonal :
                        frozen_core.calculateDiagonal[I] = results.calculateDiagonal[I] + c

\* one orbital of four is frozen, and both methods have returned
C15_OneOfFourFrozen ==
    /\ frozen_core.X = 1
    /\ frozen_core.ham_par.K = 4
    /\ ham_par.K = 3
    /\ get_dimension(fock_space) = 3
    /\ frozen_core.constructHamiltonian # << >>
    /\ frozen_core.calculateDiagonal # << >>
    /\ frozen_core.constructHamiltonian[0][0] # results.constructHamiltonian[0][0]

\* ------------------------------------------------------ properties of the ONV

\* the bits in which two representations differ
Flipped(x, y) == (x \ y) \cup (y \ x)

\* C16: annihilate(p), with or without sign, on an orbital whose bit is clear
\* returns false and leaves the representation and the sign unchanged, and
\* so does create(p) on an orbital whose bit is set; a call that succeeds
\* returns true and flips bit p and no other bit.
C16_FlipsOneBitOrFails ==
    onv1.call \in {"annihilate", "create"} =>
        LET occupied == onv1.p \in onv1.before.unsigned_representation
            fails == IF onv1.call = "annihilate" THEN ~occupied ELSE occupied
        IN  IF fails
            THEN /\ ~onv1.returned
                 /\ onv1.onv.unsigned_representation = onv1.before.unsigned_representation
                 /\ onv1.sign = onv1.before_sign
            ELSE /\ onv1.returned
                 /\ Flipped(onv1.onv.unsigned_representation,
                            onv1.before.unsigned_representation) = {onv1.p}
                 /\ (onv1.p \in onv1.onv.unsigned_representation) = (onv1.call = "create")

\* an annihilation on an empty orbital after one that succeeded on another
\* orbital, above an occupied one
C16_Refused ==
    /\ onv1.call = "annihilate"
    /\ ~onv1.returned
    /\ onv1.annihilated = 1
    /\ onv1.p > 0
    /\ onv1.onv.unsigned_representation # {}

\* C17 as stated: the representation of an ONV has N bits set in every state
C17_PopcountIsN ==
    onv1.status = "ok" => Cardinality(onv1.onv.unsigned_representation) = onv1.onv.N

\* C17: the representation has N bits set after construction and after
\* set_representation with an N-electron representation; since then every
\* annihilation that succeeded has removed one bit and every creation that
\* succeeded has added one, so it has N bits set exactly when as many
\* annihilations as creations have succeeded.
C17_PopcountBalance ==
    onv1.status = "ok" =>
        /\ Cardinality(onv1.onv.unsigned_representation)
                = onv1.onv.N - onv1.annihilated + onv1.created
        /\ onv1.call \in {"none", "set_representation"} =>
                Cardinality(onv1.onv.unsigned_representation) = onv1.onv.N
        /\ onv1.onv.N = onv1.before.N

\* an annihilation and a creation on another orbital have succeeded
C17_Excited ==
    /\ onv1.annihilated = 1
    /\ onv1.created = 1
    /\ onv1.call = "create"
    /\ onv1.onv.unsigned_representation # onv1.before.unsigned_representation
    /\ onv1.onv.N = 2

\* --------------------------------------- properties of the SelectedFockSpace

\* C28: after any sequence of addConfiguration calls, the calls that throw
\* included, the dimension of a SelectedFockSpace is the number of
\* configurations it stores.
C28_DimensionCountsConfigurations ==
    selected_fock_space.status # "none" =>
        selected_fock_space.dim = Len(selected_fock_space.configurations)

\* ----------------------------------------- properties of the expectation values

\* C21: calculateExpectationValue throws std::invalid_argument when the
\* operator and the density matrix have different dimensions, and returns a
\* value when they have the same dimension.
C21_ThrowsOnMismatchOnly ==
    expectation.call # "none" =>
        (expectation.status = "invalid_argument") = (expectation.op_K # expectation.rdm_K)

\* a one-electron operator of dimension 2 with a 1-RDM of dimension 3, as in
\* one_electron_throw
C21_Mismatched ==
    /\ expectation.call = "one"
    /\ expectation.op_K = 2
    /\ expectation.rdm_K = 3
    /\ expectation.status = "invalid_argument"

\* -------------------------------------------- properties of the Davidson solver

\* C10: the constructor throws std::invalid_argument whenever
\* number_of_requested_eigenpairs > columns(V_0), or
\* collapsed_subspace_dimension < number_of_requested_eigenpairs, or
\* collapsed_subspace_dimension >= maximum_subspace_dimension; a solver that
\* exists satisfies none of the three.
C10_ValidatedAtConstruction ==
    davidson_solver.status # "none" =>
        (davidson_solver.status = "invalid_argument"
            <=> \/ davidson_solver.number_of_requested_eigenpairs > davidson_solver.V_0_cols
                \/ davidson_solver.collapsed_subspace_dimension
                      < davidson_solver.number_of_requested_eigenpairs
                \/ davidson_solver.collapsed_subspace_dimension
                      >= davidson_solver.maximum_subspace_dimension)

\* a collapsed dimension equal to the maximum one, all else in order, is rejected
C10_Rejected ==
    /\ davidson_solver.status = "invalid_argument"
    /\ davidson_solver.V_0_cols = 2
    /\ davidson_solver.number_of_requested_eigenpairs = 1
    /\ davidson_solver.collapsed_subspace_dimension = 3
    /\ davidson_solver.maximum_subspace_dimension = 3

\* solve is inside its while loop
Iterating == subspace.pc \in {"diagonalise", "expand"}

\* C11: solve fails with the non-convergence error exactly when the iteration
\* count, incremented after a non-converged iteration, exceeds
\* maximum_number_of_iterations: a failed solve has counted more iterations
\* than the maximum, and a solve that goes on has not.
C11_FailsWhenExceeded ==
    /\ subspace.pc = "runtime_error" =>
          davidson_solver.number_of_iterations > davidson_solver.maximum_number_of_iterations
    /\ Iterating =>
          davidson_solver.number_of_iterations <= davidson_solver.maximum_number_of_iterations

\* C13: during solve, for a configuration the constructor accepted, V never
\* has more than maximum_subspace_dimension columns.
C13_SubspaceBounded ==
    Iterating => Len(subspace.V) <= davidson_solver.maximum_subspace_dimension

\* C14: at the start of every iteration S is square with as many rows as V
\* and VA have columns, and S(i,j) is the inner product of column i of V
\* with column j of VA.
C14_ExactProjection ==
    subspace.pc = "diagonalise" =>
        /\ Len(subspace.S) = Len(subspace.V)
        /\ Len(subspace.VA) = Len(subspace.V)
        /\ \A i \in 1..Len(subspace.S) :
              /\ Len(subspace.S[i]) = Len(subspace.V)
              /\ \A j \in 1..Len(subspace.V) :
                    subspace.S[i][j] = Dot(subspace.V[i], subspace.VA[j])

\* an iteration starts after an append, a collapse that moved the appended
\* column to the front, and another append
C14_Collapsed ==
    /\ subspace.pc = "diagonalise"
    /\ davidson_solver.V_0_cols = 2
    /\ davidson_solver.maximum_subspace_dimension = 3
    /\ Len(subspace.V) = 3
    /\ subspace.V[1] = UnitVector(MaxRows, 3)
    /\ subspace.S[3][1] # 0

\* C12: a getter called on a solver or optimizer that has not converged,
\* before a solve or after a failed one, throws a logic error
\* (std::invalid_argument, std::logic_error) and not the runtime error of a
\* failed solve; called after convergence it returns.
C12_ResultsAfterSuccessOnly ==
    query.call \in {"get_number_of_iterations", "get_eigenpairs", "get_eigenpair"} =>
        IF query.converged
        THEN query.result \in {"number_of_iterations", "eigenpairs"}
        ELSE query.result \in {"invalid_argument", "logic_error"}

\* get_number_of_iterations has thrown after a solve that did not converge
C12_QueriedAfterFailure ==
    /\ subspace.pc = "runtime_error"
    /\ query.call = "get_number_of_iterations"
    /\ query.result = "invalid_argument"


\* a solve is inside its loop
Solving == subspace.pc \in {"diagonalise", "expand"}

\* C24: every solve terminates: a solve that has entered its loop returns
\* converged or throws the failure to converge.
C24_SolveTerminates ==
    Solving ~> subspace.pc \in {"returned", "runtime_error"}

\* C26: whenever solve collapses the subspace while it processes the
\* correction vectors, V and VA have as many columns as S, the size of the
\* eigenvector block, so both products are well-formed, and V leaves the
\* collapse with collapsed_subspace_dimension columns, to which the correction
\* is appended.
C26_CollapseIsWellFormed ==
    [][(/\ subspace.pc = "expand"
        /\ Len(subspace.V) = davidson_solver.maximum_subspace_dimension
        /\ subspace'.V # subspace.V \/ subspace'.pc \notin {"expand", "diagonalise"})
       => /\ Len(subspace.V) = Len(subspace.S)
          /\ Len(subspace.VA) = Len(subspace.S)
          /\ subspace'.pc = "expand"
          /\ Len(subspace'.V) = davidson_solver.collapsed_subspace_dimension + 1]_vars

\* C27: over any sequence of solve() calls on one solver the eigenpair list
\* is empty while _is_solved is false, after a failed solve too, and holds
\* number_of_requested_eigenpairs entries once it is true; a solve() on a
\* solved solver adds nothing.
C27_EigenpairsMatchSolved ==
    davidson_solver.status = "constructed" =>
        davidson_solver.eigenpairs =
            (IF davidson_solver.is_solved
             THEN davidson_solver.number_of_requested_eigenpairs ELSE 0)

\* a solver asked for two eigenpairs has converged after a failed solve, and
\* a further solve() has returned without an iteration
C27_SolvedAgain ==
    /\ davidson_solver.is_solved
    /\ davidson_solver.number_of_requested_eigenpairs = 2
    /\ davidson_solver.number_of_iterations > davidson_solver.maximum_number_of_iterations
    /\ subspace.pc = "returned"
    /\ subspace.iterations = 0


\* C29: DOCINewtonOrbitalOptimizer::solve always terminates: a solve that
\* has been entered sets is_converged and returns, or throws, whatever the
\* gradients and Hessians are.
C29_OptimizerTerminates ==
    (optimizer.status = "solving") ~> (optimizer.status \in {"returned", "runtime_error"})

\* C30: makeWavefunction(index) throws std::logic_error for every index >=
\* the number of stored eigenpairs, and builds the wave function of
\* eigenpairs[index] otherwise.
C30_LogicErrorFromSizeOn ==
    query.call = "makeWavefunction" =>
        query.result = (IF query.index >= optimizer.eigenpairs
                        THEN "logic_error" ELSE "wavefunction")

=============================================================================
